---------------------------- MODULE Spec2Model ----------------------------
(***************************************************************************)
(* IntelliSchedule: the Availability Engine (backend/calendar_service.py), *)
(* and the Conversation Orchestrator (backend/agent.py).                   *)
(*                                                                         *)
(* Time is an integer number of minutes on the UTC axis.  A datetime that  *)
(* carries a zone is its UTC instant together with the zone's offset in    *)
(* minutes (zones are fixed offsets).                                      *)
(***************************************************************************)
EXTENDS Integers, Sequences, FiniteSets, TLC

VARIABLES
    calendar,           \* the provider's busy intervals, in the order it reports them
    engCall,            \* the last direct call of the Availability Engine and its outcome
    wallClock,          \* the clock
    session_contexts,   \* CalendarAgent.session_contexts: session id -> context
    turn,               \* session id -> the turn process_message is running for it
                        \* (request -> turn, where a session has two requests in flight)
    scope,              \* who talks to the agent, and what they send
    shadow,             \* turn, replayed on the session's own turns alone
    alone,              \* session_contexts, as the session's own turns alone leave it
    lastResolved,       \* session id -> the spec of its latest turn that resolved one
    sessions            \* main.sessions: session id -> the session's stored data

engineVars == <<calendar, engCall>>
agentVars ==
    <<wallClock, session_contexts, turn, scope, shadow, alone, lastResolved, sessions>>
vars ==
    <<calendar, engCall, wallClock, session_contexts, turn, scope, shadow, alone,
      lastResolved, sessions>>

None == "None"

\* the value of a local variable: the one element of the set of what it is bound to
The(S) == CHOOSE x \in S : TRUE

(***************************************************************************)
(* Bounds of the Availability Engine's input space.                        *)
(***************************************************************************)
MaxT == 4
MaxBusy == 2
MaxDur == 2

EngPoints == 0..MaxT
EngDurations == 1..MaxDur

\* A BusyInterval {start, end}, half-open.
EngIntervals == {iv \in [start : EngPoints, end : EngPoints] : iv.start < iv.end}

RECURSIVE SeqsUpTo(_, _)
SeqsUpTo(S, n) ==
    IF n = 0 THEN {<<>>}
    ELSE LET shorter == SeqsUpTo(S, n - 1)
         IN  shorter \cup {Append(q, x) : q \in {r \in shorter : Len(r) = n - 1}, x \in S}

EngCalendars == SeqsUpTo(EngIntervals, MaxBusy)
EngWindows == {w \in EngPoints \X EngPoints : w[1] <= w[2]}

(***************************************************************************)
(* The Calendar Provider's free/busy query: the busy intervals that meet   *)
(* the queried window [timeMin, timeMax), as reported (not clipped, not    *)
(* merged, in the provider's order).                                       *)
(***************************************************************************)
FreeBusyQuery(cal, timeMin, timeMax) ==
    SelectSeq(cal, LAMBDA b : b.start < timeMax /\ b.end > timeMin)

(***************************************************************************)
(* all_busy_periods.sort(key=lambda x: x['start']): a stable sort on the   *)
(* start alone.                                                            *)
(***************************************************************************)
\* all_busy_periods left in the order the provider reports it
Unsorted(s) == s

RECURSIVE InsertByStart(_, _)
InsertByStart(sorted, x) ==
    IF sorted = <<>> THEN <<x>>
    ELSE IF Head(sorted).start <= x.start
         THEN <<Head(sorted)>> \o InsertByStart(Tail(sorted), x)
         ELSE <<x>> \o sorted

RECURSIVE SortByStart(_)
SortByStart(s) ==
    IF s = <<>> THEN <<>>
    ELSE InsertByStart(SortByStart(SubSeq(s, 1, Len(s) - 1)), s[Len(s)])

\* The window's own start and end as zero-length markers around the busy list.
AllBusyPeriods(busy_periods, start_dt, end_dt) ==
    SortByStart(<<[start |-> start_dt, end |-> start_dt]>>
                \o busy_periods
                \o <<[start |-> end_dt, end |-> end_dt]>>)

\* a loop that appends a slot whenever the slot's start lies before the period's end
CarveWhileStartFits(current_slot, free_period_end, duration_minutes) ==
    IF duration_minutes > 0 /\ current_slot < free_period_end
    THEN [k \in 1..((free_period_end - current_slot + duration_minutes - 1)
                        \div duration_minutes) |->
              [start |-> current_slot + (k - 1) * duration_minutes,
               end |-> current_slot + k * duration_minutes]]
    ELSE <<>>

\* while current_slot + duration <= free_period_end: append; current_slot += duration.
\* The k-th pass of the loop appends the slot that starts (k - 1) durations after
\* current_slot, and the loop makes as many passes as durations fit.
CarveSlots(current_slot, free_period_end, duration_minutes) ==
    IF duration_minutes > 0 /\ current_slot + duration_minutes <= free_period_end
    THEN [k \in 1..((free_period_end - current_slot) \div duration_minutes) |->
              [start |-> current_slot + (k - 1) * duration_minutes,
               end |-> current_slot + k * duration_minutes]]
    ELSE <<>>

\* the same loop, whose n-th test reads current_slot + (n - 1) * duration: whether
\* one of its first passes + 1 tests fails, so that the loop is left
LoopExits(current_slot, free_period_end, duration_minutes, passes) ==
    \E n \in 0..passes :
        ~(current_slot + n * duration_minutes + duration_minutes <= free_period_end)

\* for i in range(len(all_busy_periods) - 1): carve (all[i].end, all[i+1].start)
RECURSIVE CarveGaps(_, _, _)
CarveGaps(all_busy_periods, i, duration_minutes) ==
    IF i >= Len(all_busy_periods) THEN <<>>
    ELSE CarveSlots(all_busy_periods[i].end, all_busy_periods[i + 1].start, duration_minutes)
         \o CarveGaps(all_busy_periods, i + 1, duration_minutes)

\* A minute count beyond timedelta's range: timedelta(minutes=n) raises OverflowError.
Huge == 0 - 1
IsHuge(n) == n < 0

Raised(msg) == [raised |-> TRUE, error |-> msg, slots |-> <<>>]
Returned(slots) == [raised |-> FALSE, error |-> None, slots |-> slots]

(***************************************************************************)
(* CalendarService.find_free_slots.  up: whether the provider answers the  *)
(* free/busy query; every failure is logged and raised again.              *)
(***************************************************************************)
find_free_slots(auth, cal, up, start_dt, end_dt, duration_minutes) ==
    IF ~auth THEN Raised("Not authenticated")
    ELSE IF ~up THEN Raised("HttpError")
    ELSE IF IsHuge(duration_minutes) THEN Raised("OverflowError")
    ELSE LET busy_periods == FreeBusyQuery(cal, start_dt, end_dt)
         IN  Returned(CarveGaps(AllBusyPeriods(busy_periods, start_dt, end_dt), 1,
                                duration_minutes))

(***************************************************************************)
(* CalendarService.get_availability: the same carving; an HttpError of the *)
(* query is answered with the empty list.                                  *)
(***************************************************************************)
get_availability(auth, cal, up, start_date, end_date, duration_minutes) ==
    IF ~auth THEN Raised("Not authenticated")
    ELSE IF ~up THEN Returned(<<>>)
    ELSE IF IsHuge(duration_minutes) THEN Raised("OverflowError")
    ELSE LET busy_periods == FreeBusyQuery(cal, start_date, end_date)
         IN  Returned(CarveGaps(AllBusyPeriods(busy_periods, start_date, end_date), 1,
                                duration_minutes))

(***************************************************************************)
(* CalendarService.check_availability: False as soon as a reported busy    *)
(* period overlaps, True otherwise; any exception is answered with False.  *)
(***************************************************************************)
Overlaps(start, end, b) == start < b.end /\ end > b.start

check_availability(auth, cal, up, start_time, end_time) ==
    IF ~auth THEN FALSE
    ELSE IF ~up THEN FALSE
    ELSE LET busy_times == FreeBusyQuery(cal, start_time, end_time)
         IN  ~(\E k \in 1..Len(busy_times) : Overlaps(start_time, end_time, busy_times[k]))

(***************************************************************************)
(* Datetimes.  Minute 0 of the UTC axis is a Monday, 00:00 UTC.  The local *)
(* fields of an instant t in a zone with offset off are read from t + off. *)
(* A value with second 59 and microsecond 999999 (the end of a full day)   *)
(* is written as its minute: for every instant on a whole minute, "<=" and *)
(* ">" against it agree with the code's.                                   *)
(***************************************************************************)
MinutesPerHour == 60
MinutesPerDay == 1440
DaysPerWeek == 7

LocalDate(t, off) == (t + off) \div MinutesPerDay
LocalHour(t, off) == ((t + off) % MinutesPerDay) \div MinutesPerHour
LocalMinute(t, off) == (t + off) % MinutesPerHour
\* datetime.weekday(): Monday is 0
LocalWeekday(t, off) == LocalDate(t, off) % DaysPerWeek
\* the instant of a local date at a local clock time
AtLocal(date, hour, minute, off) ==
    date * MinutesPerDay + hour * MinutesPerHour + minute - off
\* dt.replace(hour=h, minute=m, second=0, microsecond=0)
ReplaceTime(t, off, hour, minute) == AtLocal(LocalDate(t, off), hour, minute, off)

\* An aware datetime where its zone matters: the instant and the zone's offset.
UTC == 0
Aware(t, off) == [t |-> t, off |-> off]

\* dt.astimezone(tz): the same instant read in another zone
astimezone(dt, off) == Aware(dt.t, off)

\* an ISO string cut to the hour
IsoToTheHour(dt) ==
    [date |-> LocalDate(dt.t, dt.off), hour |-> LocalHour(dt.t, dt.off),
     minute |-> 0, utcoffset |-> dt.off]

\* dt.isoformat(): the wall-clock fields and the offset, "YYYY-MM-DDTHH:MM:SS+HH:MM"
isoformat(dt) ==
    [date |-> LocalDate(dt.t, dt.off), hour |-> LocalHour(dt.t, dt.off),
     minute |-> LocalMinute(dt.t, dt.off), utcoffset |-> dt.off]

\* datetime.fromisoformat(s)
fromisoformat(s) == Aware(AtLocal(s.date, s.hour, s.minute, s.utcoffset), s.utcoffset)

\* dt.strftime('%A, %B %d at %I:%M %p'): weekday, date and clock time as read in dt's zone
strftime(dt) ==
    [weekday |-> LocalWeekday(dt.t, dt.off), date |-> LocalDate(dt.t, dt.off),
     hour |-> LocalHour(dt.t, dt.off), minute |-> LocalMinute(dt.t, dt.off)]

\* dt.strftime('%I:%M %p')
strftime_clock(dt) == <<LocalHour(dt.t, dt.off), LocalMinute(dt.t, dt.off)>>

(***************************************************************************)
(* A message, by what the code's substring tests and regular expressions   *)
(* find in its lower-cased text:                                           *)
(*   kw       the tested phrases the text contains                         *)
(*   range    the groups of the first matching range pattern               *)
(*   specific whether the clock-time pattern of _parse_single_datetime     *)
(*            matches                                                      *)
(*   fuzzy    the fields dateutil's fuzzy parse reads from the text        *)
(*            (NoFields when it raises for want of any)                    *)
(*   dur      the first matching duration pattern of extract_duration      *)
(***************************************************************************)
NoRange == [none |-> TRUE]
NoFields == [none |-> TRUE]
NoDur == [none |-> TRUE]
NoSpec == [none |-> TRUE]
KeepField == 0 - 1

\* Phrases that contain other tested phrases as substrings.
Implied(phrase) ==
    CASE phrase = "day after tomorrow" -> {"tomorrow"}
      [] phrase = "next week" -> {"next"}
      [] phrase = "next month" -> {"next", "mon"}
      [] phrase = "this month" -> {"mon"}
      [] phrase = "monday" -> {"mon"}
      [] phrase = "tuesday" -> {"tue", "tues"}
      [] phrase = "wednesday" -> {"wed"}
      [] phrase = "thursday" -> {"thu", "thur", "thurs"}
      [] phrase = "friday" -> {"fri"}
      [] phrase = "saturday" -> {"sat"}
      [] phrase = "sunday" -> {"sun"}
      [] phrase = "midnight" -> {"night"}
      [] phrase = "afternoon" -> {"noon"}
      [] phrase = "openings" -> {"open"}
      [] phrase = "slots" -> {"slot"}
      [] phrase = "reschedule" -> {"schedule"}
      [] OTHER -> {}

\* phrase in text
Contains(text, phrase) ==
    \/ phrase \in text.kw
    \/ \E q \in text.kw : phrase \in Implied(q)

\* the first phrase of an ordered table that the text contains (0: none)
RECURSIVE FirstContained(_, _, _)
FirstContained(text, table, i) ==
    IF i > Len(table) THEN 0
    ELSE IF Contains(text, table[i][1]) THEN i
    ELSE FirstContained(text, table, i + 1)

\* DateTimeParser.relative_patterns, in the dict's order
relative_patterns ==
    << <<"today", 0>>, <<"tomorrow", 1>>, <<"day after tomorrow", 2>>,
       <<"next week", 7>>, <<"this week", 0>>, <<"next month", 30>>,
       <<"this month", 0>> >>

\* DateTimeParser.weekday_patterns, in the dict's order
weekday_patterns ==
    << <<"monday", 0>>, <<"mon", 0>>, <<"tuesday", 1>>, <<"tue", 1>>, <<"tues", 1>>,
       <<"wednesday", 2>>, <<"wed", 2>>, <<"thursday", 3>>, <<"thu", 3>>,
       <<"thur", 3>>, <<"thurs", 3>>, <<"friday", 4>>, <<"fri", 4>>,
       <<"saturday", 5>>, <<"sat", 5>>, <<"sunday", 6>>, <<"sun", 6>> >>

\* DateTimeParser.time_patterns, in the dict's order: <<phrase, start hour, end hour>>
time_patterns ==
    << <<"morning", 5, 12>>, <<"afternoon", 12, 18>>, <<"evening", 18, 21>>,
       <<"night", 21, 24>>, <<"midnight", 0, 0>>, <<"midday", 12, 12>>,
       <<"noon", 12, 12>>, <<"dawn", 5, 6>>, <<"dusk", 18, 19>>,
       <<"twilight", 19, 20>> >>

\* extract_duration: "a/an/one hour" is 60, then the hour patterns, then the minute ones
extract_duration(text) ==
    IF text.dur = NoDur THEN NoDur
    ELSE IF text.dur.unit = "one_hour" THEN [minutes |-> 60]
    ELSE IF text.dur.unit = "hours"
         THEN [minutes |-> IF IsHuge(text.dur.n) THEN Huge ELSE text.dur.n * 60]
    ELSE [minutes |-> text.dur.n]

\* a test that takes every stated duration, a duration of 0 included
Stated(duration) == duration # NoDur

\* "extract_duration(text) or 30", "if duration:": None and 0 are both false
Truthy(duration) == duration # NoDur /\ duration.minutes # 0

\* start + timedelta(minutes=n); Raise when timedelta overflows
Raise == [raise |-> TRUE]
PlusMinutes(t, n) == IF IsHuge(n) THEN Raise ELSE [t |-> t + n]

\* DateTimeParser._parse_time_string: <<hour, minute>> with the AM/PM marker applied
_parse_time_string(hour, minute, period) ==
    IF period = "pm" /\ hour # 12 THEN <<hour + 12, minute>>
    ELSE IF period = "am" /\ hour = 12 THEN <<0, minute>>
    ELSE <<hour, minute>>

\* datetime.replace(hour=h, minute=m) raises ValueError outside 0..23 / 0..59
ValidTime(hm) == hm[1] \in 0..23 /\ hm[2] \in 0..59

\* default + relativedelta(weekday=w): the first day on or after the default's
\* that is the weekday the text names
OnWeekday(t, off, fields) ==
    IF "weekday" \in DOMAIN fields
    THEN t + ((fields.weekday - LocalWeekday(t, off)) % DaysPerWeek) * MinutesPerDay
    ELSE t

\* date_parser.parse(text, fuzzy=True, default=d): the fields read from the text
\* replace those of the default; Raise when the text holds none.
DateutilParse(text, default, off) ==
    IF text.fuzzy = NoFields THEN Raise
    ELSE [t |-> OnWeekday(ReplaceTime(default, off,
                              IF text.fuzzy.hour = KeepField THEN LocalHour(default, off)
                              ELSE text.fuzzy.hour,
                              IF text.fuzzy.minute = KeepField
                              THEN LocalMinute(default, off)
                              ELSE text.fuzzy.minute),
                          off, text.fuzzy)]

\* a weekday rule that answers with the reference day itself when it is the named one
SameDayAllowed(day_num, current_weekday, next) ==
    LET diff == day_num - current_weekday
        ahead == IF diff < 0 THEN diff + 7 ELSE diff
    IN  IF next THEN ahead + 7 ELSE ahead

\* _parse_date_part, lines 262-269: days_ahead
DaysAhead(day_num, current_weekday, next) ==
    LET diff == day_num - current_weekday
        ahead == IF diff <= 0 THEN diff + 7 ELSE diff
    IN  IF next THEN ahead + 7 ELSE ahead

\* DateTimeParser._parse_date_part: an instant in the user's zone
_parse_date_part(text, now, off) ==
    LET rel == FirstContained(text, relative_patterns, 1)
        wd == FirstContained(text, weekday_patterns, 1)
    IN  IF rel # 0
        THEN AtLocal(LocalDate(now, off) + relative_patterns[rel][2], 0, 0, off)
        ELSE IF wd # 0
        THEN LET days_ahead == DaysAhead(weekday_patterns[wd][2], LocalWeekday(now, off),
                                         Contains(text, "next"))
             IN  AtLocal(LocalDate(now, off) + days_ahead, 0, 0, off)
        ELSE LET parsed_date == DateutilParse(text, now, off)
             IN  IF parsed_date = Raise THEN now ELSE parsed_date.t

\* a week that runs from the reference day, not from its Monday
WeekFromToday(text, now, off) ==
    IF Contains(text, "this week") THEN <<now, now + 6 * MinutesPerDay>>
    ELSE IF Contains(text, "next week")
    THEN <<now + 7 * MinutesPerDay, now + 13 * MinutesPerDay>>
    ELSE <<now, now>>

\* DateTimeParser._get_date_range_from_text: <<start date part, end date part>>
_get_date_range_from_text(text, now, off) ==
    IF Contains(text, "this week")
    THEN LET start_of_week == now - LocalWeekday(now, off) * MinutesPerDay
         IN  <<start_of_week, start_of_week + 6 * MinutesPerDay>>
    ELSE IF Contains(text, "next week")
    THEN LET start_of_next_week == now + (7 - LocalWeekday(now, off)) * MinutesPerDay
         IN  <<start_of_next_week, start_of_next_week + 6 * MinutesPerDay>>
    ELSE LET date_part == _parse_date_part(text, now, off)
         IN  <<date_part, date_part>>

\* A TemporalSpec as the parser builds it; a key the dict lacks reads as
\* False (is_full_day) or as NoDur (duration_minutes).
TemporalSpec(start, end, off, is_range, is_full_day, duration, text) ==
    [start |-> start, end |-> end, off |-> off, is_range |-> is_range,
     is_full_day |-> is_full_day, duration_minutes |-> duration, text |-> text.id]

\* DateTimeParser._parse_time_range: a spec, NoSpec (no pattern matches) or Raise
_parse_time_range(text, now, off) ==
    IF text.range = NoRange THEN NoSpec
    ELSE LET r == text.range
             start_period == IF r.sp = "" /\ r.ep # "" THEN r.ep ELSE r.sp
             start_time == _parse_time_string(r.sh, r.sm, start_period)
             end_time == _parse_time_string(r.eh, r.em, r.ep)
             dates == _get_date_range_from_text(text, now, off)
         IN  IF ~ValidTime(start_time) \/ ~ValidTime(end_time) THEN Raise
             ELSE TemporalSpec(ReplaceTime(dates[1], off, start_time[1], start_time[2]),
                               ReplaceTime(dates[2], off, end_time[1], end_time[2]),
                               off, TRUE, FALSE, NoDur, text)

\* the single-datetime result of _parse_single_datetime
SingleResult(text, parsed_dt, off, duration_minutes) ==
    LET end == PlusMinutes(parsed_dt, duration_minutes)
    IN  IF end = Raise THEN Raise
        ELSE TemporalSpec(parsed_dt, end.t, off, FALSE, FALSE,
                          [minutes |-> duration_minutes], text)

\* DateTimeParser._parse_single_datetime: a spec, NoSpec or Raise
_parse_single_datetime(text, now, off, duration_minutes) ==
    LET has_specific_time == text.specific
        period == FirstContained(text, time_patterns, 1)
        has_time_period == period # 0
        date_part == _parse_date_part(text, now, off)
        parsed_dt == DateutilParse(text, date_part, off)
        generic == IF parsed_dt = Raise THEN NoSpec
                   ELSE LET res == SingleResult(text, parsed_dt.t, off, duration_minutes)
                        IN  IF res = Raise THEN NoSpec ELSE res
    IN  IF /\ ~has_specific_time
           /\ ~has_time_period
           /\ \E word \in {"availability", "available", "free", "openings", "slots"} :
                  Contains(text, word)
        THEN TemporalSpec(ReplaceTime(date_part, off, 0, 0),
                          ReplaceTime(date_part, off, 23, 59),
                          off, TRUE, TRUE, NoDur, text)
        ELSE IF has_time_period
        THEN LET phrase == time_patterns[period][1]
                 start_hour == time_patterns[period][2]
                 end_hour == time_patterns[period][3]
             IN  IF phrase \in {"midnight", "midday", "noon"}
                 THEN SingleResult(text, ReplaceTime(date_part, off, start_hour, 0), off,
                                   duration_minutes)
                 ELSE IF ~ValidTime(<<end_hour, 0>>) THEN Raise
                 ELSE TemporalSpec(ReplaceTime(date_part, off, start_hour, 0),
                                   ReplaceTime(date_part, off, end_hour, 0),
                                   off, TRUE, FALSE, NoDur, text)
        ELSE generic

\* DateTimeParser.parse, lines 65-75: the range if there is one, else the single
\* datetime; every exception is answered with None
FirstResult(range_result, single_result) ==
    IF range_result = Raise THEN NoSpec
    ELSE IF range_result # NoSpec THEN range_result
    ELSE IF single_result = Raise THEN NoSpec
    ELSE single_result

\* "extract_duration(text) or 30"
DurationOr(found, default) == IF Truthy(found) THEN found.minutes ELSE default

\* DateTimeParser.parse: a spec or NoSpec
parse(text, now, off) ==
    FirstResult(_parse_time_range(text, now, off),
                _parse_single_datetime(text, now, off,
                                       DurationOr(extract_duration(text), 30)))

(***************************************************************************)
(* The messages of the model, each with the features of its text.          *)
(***************************************************************************)
Message(id, kw, range, specific, fuzzy, dur) ==
    [id |-> id, kw |-> kw, range |-> range, specific |-> specific,
     fuzzy |-> fuzzy, dur |-> dur]

Range(sh, sm, sp, eh, em, ep) ==
    [sh |-> sh, sm |-> sm, sp |-> sp, eh |-> eh, em |-> em, ep |-> ep]

MsgHello ==
    Message("hello", {}, NoRange, FALSE, NoFields, NoDur)
MsgBookIt ==
    Message("book it", {"book"}, NoRange, FALSE, NoFields, NoDur)
MsgWhatTime ==
    Message("what time works", {"what.*time"}, NoRange, FALSE, NoFields, NoDur)
MsgTomorrow2pm ==
    Message("book a meeting tomorrow at 2 pm", {"book", "meeting", "tomorrow"},
            NoRange, TRUE, [hour |-> 14, minute |-> KeepField], NoDur)
MsgToday8am ==
    Message("book a meeting today at 8 am", {"book", "meeting", "today"},
            NoRange, TRUE, [hour |-> 8, minute |-> KeepField], NoDur)
MsgFreeTomorrow ==
    Message("am i free tomorrow", {"free", "tomorrow"}, NoRange, FALSE, NoFields, NoDur)
MsgRangeWeek ==
    Message("3-5 pm this week", {"this week"}, Range(3, 0, "", 5, 0, "pm"),
            TRUE, [hour |-> 17, minute |-> KeepField], NoDur)
MsgHugeDuration ==
    Message("between 3 and 5 pm tomorrow for 99999999999 hours", {"tomorrow"},
            Range(3, 0, "", 5, 0, "pm"), TRUE, [hour |-> 17, minute |-> KeepField],
            [unit |-> "hours", n |-> Huge])

\* a stated duration in digits: dateutil reads "45 minutes" as the minute
MsgTomorrow2pm45min ==
    Message("book a meeting tomorrow at 2 pm for 45 minutes", {"book", "meeting", "tomorrow"},
            NoRange, TRUE, [hour |-> 14, minute |-> 45], [unit |-> "minutes", n |-> 45])
\* and "2 hours", after "2 pm", as the hour
MsgTomorrow2pm2hours ==
    Message("book a meeting tomorrow at 2 pm for 2 hours", {"book", "meeting", "tomorrow"},
            NoRange, TRUE, [hour |-> 2, minute |-> KeepField], [unit |-> "hours", n |-> 2])
MsgTomorrow2pmAnHour ==
    Message("book a meeting tomorrow at 2 pm for an hour", {"book", "meeting", "tomorrow"},
            NoRange, TRUE, [hour |-> 14, minute |-> KeepField], [unit |-> "one_hour"])
MsgToday2pm ==
    Message("book a meeting today at 2 pm", {"book", "meeting", "today"},
            NoRange, TRUE, [hour |-> 14, minute |-> KeepField], NoDur)
MsgRangeTomorrow ==
    Message("book a meeting between 3 and 5 pm tomorrow", {"book", "meeting", "tomorrow"},
            Range(3, 0, "", 5, 0, "pm"), TRUE, [hour |-> 17, minute |-> KeepField], NoDur)
MsgRangeNextWeek ==
    Message("3-5 pm next week", {"next week"}, Range(3, 0, "", 5, 0, "pm"),
            TRUE, [hour |-> 17, minute |-> KeepField], NoDur)
MsgBetween11And2pm ==
    Message("between 11 and 2 pm tomorrow", {"tomorrow"}, Range(11, 0, "", 2, 0, "pm"),
            TRUE, [hour |-> 14, minute |-> KeepField], NoDur)
MsgFrom3pmTo5 ==
    Message("from 3 pm to 5 tomorrow", {"tomorrow"}, Range(3, 0, "pm", 5, 0, ""),
            TRUE, [hour |-> 15, minute |-> KeepField], NoDur)
Msg5To3pm ==
    Message("5-3 pm tomorrow", {"tomorrow"}, Range(5, 0, "", 3, 0, "pm"),
            TRUE, [hour |-> 15, minute |-> KeepField], NoDur)

MsgDayAfterTomorrow2pm ==
    Message("book a meeting the day after tomorrow at 2 pm",
            {"book", "meeting", "day after tomorrow"},
            NoRange, TRUE, [hour |-> 14, minute |-> KeepField], NoDur)

\* a range, a full day and a named period, each with a stated duration
MsgOneHourRangeWeek ==
    Message("1-hour meeting between 3-5 pm this week", {"meeting", "this week"},
            Range(3, 0, "", 5, 0, "pm"), TRUE, [hour |-> 17, minute |-> KeepField],
            [unit |-> "hours", n |-> 1])
MsgFreeTomorrowAnHour ==
    Message("am i free tomorrow for an hour", {"free", "tomorrow"}, NoRange, FALSE, NoFields,
            [unit |-> "one_hour"])
Msg45MinuteCallMorning ==
    Message("a 45 minute call in the morning", {"call", "morning"}, NoRange, FALSE,
            [hour |-> KeepField, minute |-> 45], [unit |-> "minutes", n |-> 45])
\* a stated duration of no minutes
MsgTomorrow2pm0min ==
    Message("book a meeting tomorrow at 2 pm for 0 minutes", {"book", "meeting", "tomorrow"},
            NoRange, TRUE, [hour |-> 14, minute |-> 0], [unit |-> "minutes", n |-> 0])

\* a named time of day and no date: dateutil finds no field in the text
MsgInTheMorning ==
    Message("a call in the morning", {"call", "morning"}, NoRange, FALSE, NoFields, NoDur)
MsgInTheAfternoon ==
    Message("a call in the afternoon", {"call", "afternoon"}, NoRange, FALSE, NoFields, NoDur)
MsgInTheEvening ==
    Message("a call in the evening", {"call", "evening"}, NoRange, FALSE, NoFields, NoDur)
MsgAtNight ==
    Message("a call at night", {"call", "night"}, NoRange, FALSE, NoFields, NoDur)
MsgAtMidnight ==
    Message("a call at midnight", {"call", "midnight"}, NoRange, FALSE, NoFields, NoDur)
MsgAtNoon ==
    Message("a call at noon", {"call", "noon"}, NoRange, FALSE, NoFields, NoDur)
MsgAtMidday ==
    Message("a call at midday", {"call", "midday"}, NoRange, FALSE, NoFields, NoDur)
NamedPeriodMessages ==
    {MsgInTheMorning, MsgInTheAfternoon, MsgInTheEvening, MsgAtNight, MsgAtMidnight,
     MsgAtNoon, MsgAtMidday}

\* "<weekday> at 2 pm" and "next <weekday> at 2 pm"
WeekdayNames ==
    <<"monday", "tuesday", "wednesday", "thursday", "friday", "saturday", "sunday">>
WeekdayTexts ==
    <<"monday at 2 pm", "tuesday at 2 pm", "wednesday at 2 pm", "thursday at 2 pm",
      "friday at 2 pm", "saturday at 2 pm", "sunday at 2 pm">>
NextWeekdayTexts ==
    <<"next monday at 2 pm", "next tuesday at 2 pm", "next wednesday at 2 pm",
      "next thursday at 2 pm", "next friday at 2 pm", "next saturday at 2 pm",
      "next sunday at 2 pm">>
MsgWeekday(k, next) ==
    Message(IF next THEN NextWeekdayTexts[k] ELSE WeekdayTexts[k],
            {WeekdayNames[k]} \cup (IF next THEN {"next"} ELSE {}),
            NoRange, TRUE, [hour |-> 14, minute |-> KeepField, weekday |-> k - 1], NoDur)
WeekdayMessages == {MsgWeekday(k, next) : k \in 1..DaysPerWeek, next \in BOOLEAN}

\* booking verbs next to availability words
MsgBookWhenFree ==
    Message("book a meeting when i am free", {"book", "meeting", "free", "when.*free"},
            NoRange, FALSE, NoFields, NoDur)
MsgBookWhatTime ==
    Message("book a meeting, what time works", {"book", "meeting", "what.*time"},
            NoRange, FALSE, NoFields, NoDur)
MsgScheduleOpenSlot ==
    Message("schedule a call in any open slot", {"schedule", "call", "open", "any.*slot", "slot"},
            NoRange, FALSE, NoFields, NoDur)
MsgCancelIt ==
    Message("cancel it", {"cancel"}, NoRange, FALSE, NoFields, NoDur)

Texts ==
    {MsgHello, MsgBookIt, MsgWhatTime, MsgTomorrow2pm, MsgToday8am, MsgFreeTomorrow,
     MsgRangeWeek, MsgHugeDuration}

(***************************************************************************)
(* The Conversation Orchestrator (CalendarAgent).                          *)
(***************************************************************************)
DefaultDuration == 30
LookaheadDays == 7
MaxAlternatives == 5

Intents == {"book_appointment", "check_availability", "modify_appointment", "general_query"}

\* The session context dict; a key it lacks reads as None / False.
EmptyContext ==
    [last_discussed_datetime |-> NoSpec, error |-> None,
     requested_slot_past |-> FALSE, requested_slot_busy |-> FALSE]
Absent == [absent |-> TRUE]

\* Optional[List]: None, or a list of slots {start, end} in the zone off
NoSlots == [is_none |-> TRUE, list |-> <<>>]
SlotList(list) == [is_none |-> FALSE, list |-> list]
NoConfirmation == [none |-> TRUE]

Last(q) == q[Len(q)]

\* process_message has not returned yet
NoResult == [none |-> TRUE]
\* the turn's payload has not been sent to /confirm-booking
NoBooking == [none |-> TRUE]

\* ConversationState as process_message builds it, with the position in the graph
\* (pc) and the record of the turn: the stages visited, the stages that raised,
\* the resolver's answer, the provider calls made and which of them the provider
\* left unanswered, the clock read by _check_availability, whether another turn
\* of the session was running at some time of this one.
ConversationState(session_id, user_timezone, history, messages, context) ==
    [pc |-> "parse_intent", session_id |-> session_id, user_timezone |-> user_timezone,
     history |-> history, messages |-> messages, context |-> context,
     intent |-> None, extracted_datetime |-> NoSpec,
     duration_minutes |-> DefaultDuration, needs_confirmation |-> FALSE,
     confirmation_data |-> NoConfirmation, available_slots |-> NoSlots,
     visited |-> <<>>, failed |-> {}, resolver_ran |-> FALSE, resolved |-> NoSpec,
     calls |-> <<>>, checked_at |-> 0, context_in |-> context, result |-> NoResult,
     booking |-> NoBooking, unanswered |-> {}, overlapped |-> FALSE]

IdleTurn ==
    [ConversationState(None, 0, <<>>, <<>>, EmptyContext) EXCEPT !.pc = "idle"]

\* every message handed back as the assistant's
Relabelled(msg) == [role |-> "assistant", content |-> msg.content]

\* HumanMessage / AIMessage from a history item, and back
ToMessage(item) ==
    [type |-> IF item.role = "user" THEN "human" ELSE "ai", content |-> item.content]
ToHistoryItem(msg) ==
    [role |-> IF msg.type = "human" THEN "user" ELSE "assistant", content |-> msg.content]
ToMessages(history) == [k \in 1..Len(history) |-> ToMessage(history[k])]
ToHistory(messages) == [k \in 1..Len(messages) |-> ToHistoryItem(messages[k])]

WellFormed(history) == \A k \in 1..Len(history) : "content" \in DOMAIN history[k]

\* the assistant's text: which sentence it is, and the error it quotes
Reply(kind, error) == [kind |-> kind, error |-> error]
\* a sentence followed by the times it lists
Listing(kind, times) == [kind |-> kind, error |-> None, times |-> times]
\* "Perfect! I can book a {duration}-minute meeting for {formatted_time}. ..."
Proposal(duration_minutes, formatted_time) ==
    [kind |-> "confirm_booking", error |-> None, duration_minutes |-> duration_minutes,
     formatted_time |-> formatted_time]
Apology == Reply("apology", None)

\* the rule-based fallback of _parse_intent
booking_patterns ==
    {"book", "schedule", "set up", "arrange", "plan", "create", "add",
     "meeting", "appointment", "call", "event",
     "available", "free", "open",
     "tomorrow", "today", "next week", "this week", "monday", "tuesday", "wednesday",
     "thursday", "friday", "saturday", "sunday"}
availability_patterns ==
    {"available", "free", "open", "what.*time", "when.*free", "any.*slot",
     "check.*calendar", "see.*schedule"}
modification_patterns ==
    {"cancel", "delete", "remove", "reschedule", "move", "change", "update"}

\* a rule-based classifier with no default: None when no family matches
NoDefault(message) ==
    IF \E pattern \in booking_patterns : Contains(message, pattern)
    THEN IF Contains(message, "available") \/ Contains(message, "free")
         THEN "check_availability"
         ELSE "book_appointment"
    ELSE IF \E pattern \in availability_patterns : Contains(message, pattern)
    THEN "check_availability"
    ELSE IF \E pattern \in modification_patterns : Contains(message, pattern)
    THEN "modify_appointment"
    ELSE None

RuleBasedIntent(message) ==
    IF \E pattern \in booking_patterns : Contains(message, pattern)
    THEN IF Contains(message, "available") \/ Contains(message, "free")
         THEN "check_availability"
         ELSE "book_appointment"
    ELSE IF \E pattern \in availability_patterns : Contains(message, pattern)
    THEN "check_availability"
    ELSE IF \E pattern \in modification_patterns : Contains(message, pattern)
    THEN "modify_appointment"
    ELSE "general_query"

\* The generation capability's answer to the intent prompt: the labels its text
\* mentions, or a failure of the call.
LLMFailure == [failed |-> TRUE]
LLMAnswer(labels) == [failed |-> FALSE, labels |-> labels]
LLMReplies ==
    {LLMFailure, LLMAnswer({})} \cup {LLMAnswer({label}) : label \in Intents}

\* CalendarAgent._parse_intent
_parse_intent(state, llm) ==
    IF state.messages = <<>>
    THEN \* state.messages[-1] raises IndexError: the outer except
         [state EXCEPT !.intent = "general_query", !.failed = @ \cup {"parse_intent"},
                       !.visited = Append(@, "parse_intent")]
    ELSE LET message == Last(state.messages).content
             intent == IF llm.failed THEN RuleBasedIntent(message)
                       ELSE IF "book_appointment" \in llm.labels THEN "book_appointment"
                       ELSE IF "check_availability" \in llm.labels THEN "check_availability"
                       ELSE IF "modify_appointment" \in llm.labels THEN "modify_appointment"
                       ELSE "general_query"
         IN  [state EXCEPT !.intent = intent, !.visited = Append(@, "parse_intent")]

\* a stage that keeps the resolved spec for the turn only
Forget(context, spec) == context

\* state.context["last_discussed_datetime"] = parsed_datetime
Remember(context, spec) == [context EXCEPT !.last_discussed_datetime = spec]

\* _parse_datetime, lines 261-266: the spec with the message's duration written
\* into it, or the spec as far as it was written when timedelta raises
WithDuration(parsed_datetime, duration, end) ==
    IF end = Raise
    THEN [parsed_datetime EXCEPT !.duration_minutes = duration]
    ELSE [parsed_datetime EXCEPT !.duration_minutes = duration, !.end = end.t]

\* _parse_datetime, lines 255-266, for the spec the stage ends with
Extracted(ran, spec, duration, raised) ==
    [ran EXCEPT !.extracted_datetime = spec,
                !.context = Remember(@, spec),
                !.resolved = spec,
                !.duration_minutes = IF Truthy(duration) THEN duration.minutes ELSE @,
                !.failed = IF raised THEN @ \cup {"parse_datetime"} ELSE @]

\* _parse_datetime, lines 255-272
Parsed(ran, parsed_datetime, duration) ==
    IF parsed_datetime = NoSpec THEN ran
    ELSE IF ~Truthy(duration) THEN Extracted(ran, parsed_datetime, duration, FALSE)
    ELSE Extracted(ran,
                   WithDuration(parsed_datetime, duration,
                                PlusMinutes(parsed_datetime.start, duration.minutes)),
                   duration,
                   IsHuge(duration.minutes))

\* a stage that also takes the resolved time for an available slot
ParsedAndConfirmed(state, now) ==
    IF state.messages = <<>>
    THEN [state EXCEPT !.failed = @ \cup {"parse_datetime"},
                       !.visited = Append(@, "parse_datetime")]
    ELSE LET parsed == Parsed([state EXCEPT !.visited = Append(@, "parse_datetime"),
                                            !.resolver_ran = TRUE],
                              parse(Last(state.messages).content, now, state.user_timezone),
                              extract_duration(Last(state.messages).content))
             spec == parsed.extracted_datetime
         IN  IF spec = NoSpec THEN parsed
             ELSE [parsed EXCEPT !.available_slots =
                                     SlotList(<<[start |-> spec.start, end |-> spec.end]>>)]

\* CalendarAgent._parse_datetime.  extracted_datetime and
\* context["last_discussed_datetime"] are one dict: what is written to one is
\* read from the other.  resolved is the spec the stage ends with.
_parse_datetime(state, now) ==
    IF state.messages = <<>>
    THEN \* state.messages[-1] raises IndexError
         [state EXCEPT !.failed = @ \cup {"parse_datetime"},
                       !.visited = Append(@, "parse_datetime")]
    ELSE The({Parsed([state EXCEPT !.visited = Append(@, "parse_datetime"),
                                   !.resolver_ran = TRUE],
                     parsed_datetime, duration) :
                  parsed_datetime \in {parse(Last(state.messages).content, now,
                                             state.user_timezone)},
                  duration \in {extract_duration(Last(state.messages).content)}})

\* a router that sends every booking turn to the response
AlwaysRespond(state) ==
    IF state.intent = "check_availability" /\ state.context.error = None
    THEN "check_availability"
    ELSE "generate_response"

\* CalendarAgent._decide_next_step
_decide_next_step(state) ==
    IF state.context.error # None THEN "generate_response"
    ELSE IF state.intent = "book_appointment"
    THEN IF state.extracted_datetime # NoSpec /\ state.available_slots.list # <<>>
         THEN "generate_response"
         ELSE IF state.extracted_datetime # NoSpec /\ state.available_slots.list = <<>>
         THEN "check_availability"
         ELSE "generate_response"
    ELSE IF state.intent = "check_availability" THEN "check_availability"
    ELSE "generate_response"

\* one query of the Calendar Provider, as the turn's record keeps it
Call(op, start, end, duration) == [op |-> op, start |-> start, end |-> end, duration |-> duration]

\* the slots as the Availability Engine returns them
Unfiltered(slots, now) == slots

\* [slot for slot in slots if slot["start"] > now]
After(slots, now) == SelectSeq(slots, LAMBDA slot : slot.start > now)

Take(q, n) == IF Len(q) <= n THEN q ELSE SubSeq(q, 1, n)

\* the except path of _check_availability
CheckFailed(state, error, calls) ==
    [state EXCEPT !.context.error = error, !.failed = @ \cup {"check_availability"},
                  !.calls = @ \o calls]

\* a search that stops after the first day of the range
FirstDayOnly(current_day, spec, duration, now, cal, auth, up, all_slots, calls) ==
    LET day_end_time == ReplaceTime(current_day, spec.off, LocalHour(spec.end, spec.off),
                                    LocalMinute(spec.end, spec.off))
        daily == find_free_slots(auth, cal, up[1], current_day, day_end_time, duration)
    IN  [raised |-> daily.raised, error |-> daily.error, slots |-> daily.slots,
         calls |-> <<Call("find_free_slots", current_day, day_end_time, duration)>>]

\* Scenario 1 of _check_availability: the same hours on each day from current_day
\* to the end date; a result is [raised, error, slots, calls].
RECURSIVE DailySlots(_, _, _, _, _, _, _, _, _)
DailySlots(current_day, spec, duration, now, cal, auth, up, all_slots, calls) ==
    IF LocalDate(current_day, spec.off) > LocalDate(spec.end, spec.off)
    THEN [raised |-> FALSE, error |-> None, slots |-> all_slots, calls |-> calls]
    ELSE LET day_start_time == ReplaceTime(current_day, spec.off,
                                           LocalHour(spec.start, spec.off),
                                           LocalMinute(spec.start, spec.off))
             day_end_time == ReplaceTime(current_day, spec.off,
                                         LocalHour(spec.end, spec.off),
                                         LocalMinute(spec.end, spec.off))
             daily == find_free_slots(auth, cal, up[Len(calls) + 1],
                                      day_start_time, day_end_time, duration)
             called == Append(calls, Call("find_free_slots", day_start_time,
                                          day_end_time, duration))
         IN  IF day_start_time > now
             THEN IF daily.raised
                  THEN [raised |-> TRUE, error |-> daily.error, slots |-> <<>>,
                        calls |-> called]
                  ELSE DailySlots(current_day + MinutesPerDay, spec, duration, now, cal,
                                  auth, up, all_slots \o daily.slots, called)
             ELSE DailySlots(current_day + MinutesPerDay, spec, duration, now, cal,
                             auth, up, all_slots, calls)

\* a stage that never looks at the context for a spec
NoSticky(state) == state.extracted_datetime

\* "if not state.extracted_datetime": the spec last discussed, if there is one
StickySpec(state) ==
    LET last_discussed == state.context.last_discussed_datetime
    IN  IF state.extracted_datetime = NoSpec /\ last_discussed # NoSpec
        THEN last_discussed
        ELSE state.extracted_datetime

\* CalendarAgent._check_availability.  up[k] tells whether the Calendar Provider
\* answers the k-th query of the stage.
_check_availability(state, now, cal, auth, up) ==
    LET visit == [state EXCEPT !.visited = Append(@, "check_availability"),
                               !.checked_at = now]
        spec == StickySpec(state)
        held == [visit EXCEPT !.extracted_datetime = spec]
        duration == state.duration_minutes
    IN  IF ~auth
        THEN [visit EXCEPT !.context.error = "Not authenticated with Google Calendar"]
        ELSE IF spec = NoSpec
        THEN LET end_date == now + LookaheadDays * MinutesPerDay
                 available == get_availability(auth, cal, up[1], now, end_date, duration)
                 calls == <<Call("get_availability", now, end_date, duration)>>
             IN  IF available.raised THEN CheckFailed(visit, available.error, calls)
                 ELSE [visit EXCEPT !.available_slots = SlotList(After(available.slots, now)),
                                    !.calls = @ \o calls]
        ELSE IF /\ spec.is_range
                /\ ~spec.is_full_day
                /\ LocalDate(spec.end, spec.off) > LocalDate(spec.start, spec.off)
        THEN LET days == DailySlots(spec.start, spec, duration, now, cal, auth, up,
                                    <<>>, <<>>)
             IN  IF days.raised THEN CheckFailed(held, days.error, days.calls)
                 ELSE [held EXCEPT !.available_slots = SlotList(After(days.slots, now)),
                                   !.calls = @ \o days.calls]
        ELSE IF spec.is_range \/ spec.is_full_day
        THEN LET available == find_free_slots(auth, cal, up[1], spec.start, spec.end,
                                              duration)
                 calls == <<Call("find_free_slots", spec.start, spec.end, duration)>>
             IN  IF available.raised THEN CheckFailed(held, available.error, calls)
                 ELSE [held EXCEPT !.available_slots = SlotList(After(available.slots, now)),
                                   !.calls = @ \o calls]
        ELSE LET end_time == PlusMinutes(spec.start, duration)
                 is_available == check_availability(auth, cal, up[1], spec.start, end_time.t)
                 date_start == ReplaceTime(spec.start, spec.off, 0, 0)
                 date_end == date_start + MinutesPerDay
                 alternative == find_free_slots(auth, cal, up[2], date_start, date_end,
                                                duration)
                 point == Call("check_availability", spec.start, end_time.t, duration)
                 day == Call("find_free_slots", date_start, date_end, duration)
             IN  IF end_time = Raise THEN CheckFailed(held, "OverflowError", <<>>)
                 ELSE IF spec.start <= now
                 THEN [held EXCEPT !.context.requested_slot_past = TRUE,
                                   !.available_slots = SlotList(<<>>)]
                 ELSE IF is_available
                 THEN [held EXCEPT !.available_slots =
                                       SlotList(<<[start |-> spec.start, end |-> end_time.t]>>),
                                   !.calls = Append(@, point)]
                 ELSE IF alternative.raised
                 THEN [CheckFailed(held, alternative.error, <<point, day>>)
                           EXCEPT !.context.requested_slot_busy = TRUE]
                 ELSE [held EXCEPT !.context.requested_slot_busy = TRUE,
                                   !.available_slots =
                                       SlotList(Take(After(alternative.slots, now),
                                                     MaxAlternatives)),
                                   !.calls = @ \o <<point, day>>]

\* the stage with its record of the queries the Calendar Provider failed on: the
\* k-th query of the stage is the k-th call of the turn
CheckedWith(state, now, cal, auth, up) ==
    LET checked == _check_availability(state, now, cal, auth, up)
    IN  [checked EXCEPT !.unanswered = {k \in 1..Len(checked.calls) : ~up[k]}]

\* "if state.context.get("error")", "if not state.available_slots"
HasError(state) == state.context.error # None
HasSlots(state) == state.available_slots.list # <<>>

\* CalendarAgent._generate_availability_response
_generate_availability_response(state, llm_up) ==
    IF HasError(state) THEN Reply("issue", state.context.error)
    ELSE IF ~HasSlots(state)
    THEN IF state.extracted_datetime # NoSpec THEN Reply("no_slots_for_that_time", None)
         ELSE Reply("calendar_busy", None)
    ELSE IF llm_up THEN Reply("slots_generated", None)
    ELSE Reply("slots_template", None)

\* the payload of a proposed booking: its bounds converted to UTC, as ISO strings
ConfirmationData(start_time_local, end_time_local, user_timezone) ==
    [start_time |-> isoformat(astimezone(start_time_local, UTC)),
     end_time |-> isoformat(astimezone(end_time_local, UTC)),
     title |-> "Meeting", user_timezone |-> user_timezone]

\* the slots of available_slots as their day and clock time, each in the zone the
\* slot carries: the zone of the window it was found in
SlotTimes(slots, off) == [k \in 1..Len(slots) |-> strftime(Aware(slots[k].start, off))]

\* a booking response that proposes the first slot whenever there is one
ConfirmFirstSlot(state) ==
    IF ~HasSlots(state) THEN <<Reply("no_slots_in_range", None), FALSE, NoConfirmation>>
    ELSE <<Proposal(state.duration_minutes,
                    strftime(Aware(state.available_slots.list[1].start, state.user_timezone))),
           TRUE,
           ConfirmationData(Aware(state.available_slots.list[1].start, state.user_timezone),
                            Aware(state.available_slots.list[1].end, state.user_timezone),
                            state.user_timezone)>>

\* CalendarAgent._generate_booking_response: <<reply, needs_confirmation, confirmation_data>>
_generate_booking_response(state) ==
    LET keep == <<state.needs_confirmation, state.confirmation_data>>
        slot == state.available_slots.list[1]
        off == state.extracted_datetime.off
        start_time_local == Aware(slot.start, off)
        end_time_local == Aware(slot.end, off)
    IN  IF HasError(state) THEN <<Reply("issue", state.context.error)>> \o keep
        ELSE IF state.extracted_datetime = NoSpec THEN <<Reply("ask_for_time", None)>> \o keep
        ELSE IF state.context.requested_slot_past THEN <<Reply("time_passed", None)>> \o keep
        ELSE IF ~HasSlots(state)
        THEN IF state.context.requested_slot_busy
             THEN <<Listing("slot_busy_alternatives",
                            SlotTimes(state.available_slots.list, off))>> \o keep
             ELSE <<Reply("no_slots_in_range", None)>> \o keep
        ELSE IF Len(state.available_slots.list) > 1
        THEN <<Listing("slot_list", SlotTimes(state.available_slots.list, off))>> \o keep
        ELSE <<Proposal(state.duration_minutes, strftime(start_time_local)), TRUE,
               ConfirmationData(start_time_local, end_time_local, state.user_timezone)>>

\* CalendarAgent._generate_general_response
_generate_general_response(state, llm_up) ==
    IF llm_up THEN Reply("general_generated", None) ELSE Reply("general_template", None)

\* CalendarAgent._generate_response
_generate_response(state, llm_up) ==
    LET booking == _generate_booking_response(state)
        response == IF state.intent = "check_availability"
                    THEN _generate_availability_response(state, llm_up)
                    ELSE IF state.intent = "book_appointment" THEN booking[1]
                    ELSE IF state.intent = "modify_appointment"
                    THEN Reply("modification", None)
                    ELSE _generate_general_response(state, llm_up)
        said == [state EXCEPT !.messages = Append(@, [type |-> "ai", content |-> response]),
                              !.visited = Append(@, "generate_response")]
    IN  IF state.intent = "book_appointment"
        THEN [said EXCEPT !.needs_confirmation = booking[2],
                          !.confirmation_data = booking[3]]
        ELSE said

\* an edge from check_availability back to itself
LoopingEdge == "check_availability"

\* the edges of _build_graph out of parse_intent, check_availability and
\* generate_response
AfterParseIntent == "parse_datetime"
AfterCheckAvailability == "generate_response"
AfterGenerateResponse == "end"

\* process_message, lines 137-158: what the caller gets back
Result(state) ==
    [failed |-> FALSE,
     conversation_history |-> ToHistory(state.messages),
     needs_confirmation |-> state.needs_confirmation,
     confirmation_data |-> state.confirmation_data,
     available_slots |-> state.available_slots,
     context |-> state.context]

\* process_message, lines 160-167: the answer on an exception
ErrorResult(history, error) ==
    [failed |-> TRUE,
     conversation_history |-> Append(history, [role |-> "assistant", content |-> Apology]),
     needs_confirmation |-> FALSE,
     confirmation_data |-> NoConfirmation,
     available_slots |-> NoSlots,
     context |-> [error |-> error]]

\* an insert that is not preceded by the check of the slot
CreateUnchecked(auth, cal, up, start_time, end_time) ==
    IF ~auth THEN [raised |-> TRUE, error |-> "Not authenticated", calendar |-> cal]
    ELSE IF ~up[2] THEN [raised |-> TRUE, error |-> "HttpError", calendar |-> cal]
    ELSE [raised |-> FALSE, error |-> None,
          start |-> isoformat(astimezone(start_time, UTC)),
          end |-> isoformat(astimezone(end_time, UTC)),
          calendar |-> Append(cal, [start |-> start_time.t, end |-> end_time.t])]

\* CalendarService.create_event: the slot is checked again, then the event is
\* inserted; up[1] and up[2] tell whether the provider answers the two requests
create_event(auth, cal, up, start_time, end_time) ==
    IF ~auth THEN [raised |-> TRUE, error |-> "Not authenticated", calendar |-> cal]
    ELSE IF ~check_availability(auth, cal, up[1], start_time.t, end_time.t)
    THEN [raised |-> TRUE, error |-> "Time slot is not available", calendar |-> cal]
    ELSE IF ~up[2] THEN [raised |-> TRUE, error |-> "HttpError", calendar |-> cal]
    ELSE [raised |-> FALSE, error |-> None,
          start |-> isoformat(astimezone(start_time, UTC)),
          end |-> isoformat(astimezone(end_time, UTC)),
          calendar |-> Append(cal, [start |-> start_time.t, end |-> end_time.t])]

\* CalendarAgent.execute_booking: the answer, and the provider's calendar after it
execute_booking(confirmation_data, auth, cal, up) ==
    LET start_time_utc == fromisoformat(confirmation_data.start_time)
        end_time_utc == fromisoformat(confirmation_data.end_time)
        result == create_event(auth, cal, up, start_time_utc, end_time_utc)
        start_time_local == astimezone(start_time_utc, confirmation_data.user_timezone)
    IN  IF ~auth
        THEN [status |-> "error", error |-> "Not authenticated with Google Calendar",
              calendar |-> cal]
        ELSE IF result.raised
        THEN [status |-> "error", error |-> result.error, calendar |-> cal]
        ELSE [status |-> "success", error |-> None,
              formatted_time_local |-> strftime(start_time_local),
              user_timezone |-> confirmation_data.user_timezone,
              event_start |-> result.start, event_end |-> result.end,
              calendar |-> result.calendar]

\* one entry for every session
SharedKey(session_id) == "A"

\* the key of a session's entry in session_contexts
ContextKey(session_id) == session_id

\* a turn that starts with the session's context but for its error
ClearedOnLoad(contexts, session_id) ==
    IF contexts[ContextKey(session_id)] = Absent THEN EmptyContext
    ELSE [contexts[ContextKey(session_id)] EXCEPT !.error = None]

\* a ConversationState's own context unless the session has one stored
Loaded(entry) == IF entry = Absent THEN EmptyContext ELSE entry

\* self.session_contexts[session_id].copy()
LoadContext(contexts, session_id) == Loaded(contexts[ContextKey(session_id)])

\* a turn that stores nothing for the session
KeepStored(contexts, session_id, context) == contexts

\* self.session_contexts[session_id] = final_state["context"].copy()
StoreContext(contexts, session_id, context) ==
    [contexts EXCEPT ![ContextKey(session_id)] = context]

\* process_message, lines 113-133: the state the graph starts from, or the answer
\* of the except path when an item of the history has no content
Begin(context, session_id, user_timezone, history) ==
    IF ~WellFormed(history)
    THEN [IdleTurn EXCEPT !.pc = "done", !.session_id = session_id,
                          !.user_timezone = user_timezone, !.history = history,
                          !.result = ErrorResult(history, "'content'")]
    ELSE ConversationState(session_id, user_timezone, history,
                           ToMessages(history), context)

\* process_message, lines 137-158
Return(state) == [state EXCEPT !.pc = "done", !.result = Result(state)]

(***************************************************************************)
(* The turns of the model.                                                 *)
(***************************************************************************)
Sessions == {"A", "B"}
Zones == {0, 330}

\* the clock starts on a Wednesday at 09:00 UTC and moves in steps of 30 hours
NowStart == 2 * MinutesPerDay + 9 * MinutesPerHour
TickStep == 30 * MinutesPerHour
MaxTicks == 1
\* the provider's calendar takes bookings up to this many events
MaxEvents == 3

At(day, hour) == day * MinutesPerDay + hour * MinutesPerHour
Busy(start, end) == [start |-> start, end |-> end]

\* Friday 10:00-11:00 reported before Thursday 08:00-15:00
CalUnsorted == <<Busy(At(4, 10), At(4, 11)), Busy(At(3, 8), At(3, 15))>>
Calendars == {<<>>, CalUnsorted}

User(text) == [role |-> "user", content |-> text]
Assistant(reply) == [role |-> "assistant", content |-> reply]

\* what chat_endpoint passes: the session's history with the new message last
HistoriesOf(texts) ==
    {<<User(text)>> : text \in texts}
        \cup {<<User(MsgHello), Assistant(Reply("general_template", None)), User(text)>> :
                  text \in texts \cap {MsgTomorrow2pm}}

\* a history no caller of this repository passes: an item of it has no content
MalformedHistory == <<User(MsgHello), [role |-> "user"]>>

\* whether the Calendar Provider answers the k-th query of a stage
Answers == {[k \in 1..DaysPerWeek |-> k # down] : down \in 0..2}

\* a scope: the sessions, the histories and zones they send, the calendars, and
\* how the generation capability (llm), the credentials (auth) and the Calendar
\* Provider (up) may answer
Scope(session_ids, histories, zones, calendars, llm, auth, up) ==
    [sessions |-> session_ids, histories |-> histories, zones |-> zones,
     calendars |-> calendars, llm |-> llm, auth |-> auth, up |-> up]
NoScope == Scope({}, {}, {}, {}, {}, {}, {})

NoCall == [op |-> "none"]

\* get_session: the data of a session that has not been heard of
NewSession == [conversation_history |-> <<>>]

InitAgent ==
    /\ wallClock = NowStart
    /\ session_contexts = [sid \in Sessions |-> Absent]
    /\ turn = [sid \in Sessions |-> IdleTurn]
    /\ shadow = [sid \in Sessions |-> IdleTurn]
    /\ alone = [sid \in Sessions |-> Absent]
    /\ lastResolved = [sid \in Sessions |-> NoSpec]
    /\ sessions = [sid \in Sessions |-> NewSession]

\* chat_endpoint calls process_message with the history of the session
StartTurn ==
    \E sid \in scope.sessions, user_timezone \in scope.zones, history \in scope.histories :
        /\ turn[sid].pc \in {"idle", "done"}
        /\ turn' = [turn EXCEPT ![sid] =
               Begin(LoadContext(session_contexts, sid), sid, user_timezone, history)]
        /\ shadow' = [shadow EXCEPT ![sid] =
               Begin(Loaded(alone[sid]), sid, user_timezone, history)]
        /\ UNCHANGED <<engineVars, wallClock, session_contexts, scope, sessions, alone, lastResolved>>

ParseIntent ==
    \E sid \in scope.sessions, llm \in scope.llm :
        /\ turn[sid].pc = "parse_intent"
        /\ turn' = [turn EXCEPT ![sid] =
               [_parse_intent(@, llm) EXCEPT !.pc = AfterParseIntent]]
        /\ shadow' = [shadow EXCEPT ![sid] =
               [_parse_intent(@, llm) EXCEPT !.pc = AfterParseIntent]]
        /\ UNCHANGED <<engineVars, wallClock, session_contexts, scope, sessions, alone, lastResolved>>

\* the stage, and the conditional edge out of it
Routed(state) == [state EXCEPT !.pc = _decide_next_step(state)]

ParseTime ==
    \E sid \in scope.sessions :
        /\ turn[sid].pc = "parse_datetime"
        /\ \E parsed \in {_parse_datetime(turn[sid], wallClock)},
              replayed \in {_parse_datetime(shadow[sid], wallClock)} :
               /\ turn' = [turn EXCEPT ![sid] = Routed(parsed)]
               /\ shadow' = [shadow EXCEPT ![sid] = Routed(replayed)]
        /\ UNCHANGED <<engineVars, wallClock, session_contexts, scope, sessions, alone, lastResolved>>

CheckAvailability ==
    \E sid \in scope.sessions, auth \in scope.auth, up \in scope.up :
        /\ turn[sid].pc = "check_availability"
        /\ turn' = [turn EXCEPT ![sid] =
               [CheckedWith(@, wallClock, calendar, auth, up)
                    EXCEPT !.pc = AfterCheckAvailability]]
        /\ shadow' = [shadow EXCEPT ![sid] =
               [CheckedWith(@, wallClock, calendar, auth, up)
                    EXCEPT !.pc = AfterCheckAvailability]]
        /\ UNCHANGED <<engineVars, wallClock, session_contexts, scope, sessions, alone, lastResolved>>

GenerateResponse ==
    \E sid \in scope.sessions, llm \in scope.llm :
        /\ turn[sid].pc = "generate_response"
        /\ turn' = [turn EXCEPT ![sid] =
               [_generate_response(@, ~llm.failed) EXCEPT !.pc = AfterGenerateResponse]]
        /\ shadow' = [shadow EXCEPT ![sid] =
               [_generate_response(@, ~llm.failed) EXCEPT !.pc = AfterGenerateResponse]]
        /\ UNCHANGED <<engineVars, wallClock, session_contexts, scope, sessions, alone, lastResolved>>

\* process_message after the graph has ended
ReturnTurn ==
    \E sid \in scope.sessions :
        /\ turn[sid].pc = "end"
        /\ session_contexts' = StoreContext(session_contexts, sid, turn[sid].context)
        /\ turn' = [turn EXCEPT ![sid] = Return(@)]
        /\ alone' = [alone EXCEPT ![sid] = shadow[sid].context]
        /\ shadow' = [shadow EXCEPT ![sid] = Return(@)]
        /\ lastResolved' = IF turn[sid].resolved = NoSpec THEN lastResolved
                           ELSE [lastResolved EXCEPT ![sid] = turn[sid].resolved]
        /\ UNCHANGED <<engineVars, wallClock, scope, sessions>>

\* /confirm-booking with the payload the turn returned
ExecuteBooking ==
    \E sid \in scope.sessions, auth \in scope.auth, up \in scope.up :
        /\ turn[sid].pc = "done"
        /\ turn[sid].result.needs_confirmation
        /\ turn[sid].booking = NoBooking
        /\ Len(calendar) < MaxEvents
        /\ \E booked \in {execute_booking(turn[sid].result.confirmation_data, auth,
                                           calendar, up)} :
               /\ turn' = [turn EXCEPT ![sid].booking = booked]
               /\ shadow' = [shadow EXCEPT ![sid].booking = booked]
               /\ calendar' = booked.calendar
        /\ UNCHANGED <<engCall, wallClock, session_contexts, scope, sessions, alone, lastResolved>>

Tick ==
    /\ wallClock < NowStart + MaxTicks * TickStep
    /\ wallClock' = wallClock + TickStep
    /\ UNCHANGED <<engineVars, session_contexts, turn, scope, sessions, shadow, alone, lastResolved>>

Next ==
    \/ StartTurn
    \/ ParseIntent
    \/ ParseTime
    \/ CheckAvailability
    \/ GenerateResponse
    \/ ReturnTurn
    \/ Tick

\* one session in one zone, every message
ScopeOne(zone) ==
    Scope({"A"}, HistoriesOf(Texts) \cup {MalformedHistory}, {zone}, Calendars,
          LLMReplies, BOOLEAN, Answers)

Init ==
    /\ scope \in {ScopeOne(zone) : zone \in Zones}
    /\ calendar \in scope.calendars
    /\ engCall = NoCall
    /\ InitAgent

Spec == Init /\ [][Next]_vars

\* Thursday busy from 00:00 UTC but for 17:00-17:30
CalOneGap == <<Busy(At(3, 0), At(3, 17)), Busy(At(3, 17) + 30, At(4, 0))>>

\* booking turns of one session, and the confirmation of what they propose
ScopeBook(zone) ==
    Scope({"A"}, HistoriesOf({MsgBookIt, MsgToday8am, MsgTomorrow2pm, MsgRangeTomorrow}),
          {zone}, {<<>>, CalOneGap},
          {LLMFailure, LLMAnswer({"check_availability"})}, BOOLEAN, Answers)

InitBook ==
    /\ scope \in {ScopeBook(zone) : zone \in Zones}
    /\ calendar \in scope.calendars
    /\ engCall = NoCall
    /\ InitAgent

NextBook ==
    \/ Next
    \/ ExecuteBooking

SpecBook == InitBook /\ [][NextBook]_vars

\* two sessions
ScopeTwo ==
    Scope(Sessions, HistoriesOf({MsgTomorrow2pm, MsgWhatTime}), {0}, {CalUnsorted},
          {LLMFailure}, {TRUE}, {[k \in 1..DaysPerWeek |-> TRUE]})

InitIso ==
    /\ scope = ScopeTwo
    /\ calendar \in scope.calendars
    /\ engCall = NoCall
    /\ InitAgent

SpecIso == InitIso /\ [][Next]_vars

\* The graph runs the node it has scheduled, and the calls a node makes return.
Fairness ==
    /\ WF_vars(ParseIntent)
    /\ WF_vars(ParseTime)
    /\ WF_vars(CheckAvailability)
    /\ WF_vars(GenerateResponse)
    /\ WF_vars(ReturnTurn)

ScopeLive ==
    Scope({"A"}, HistoriesOf({MsgHello, MsgTomorrow2pm, MsgHugeDuration}),
          {330}, {CalUnsorted},
          {LLMFailure, LLMAnswer({"check_availability"}), LLMAnswer({"general_query"})},
          BOOLEAN, Answers)

InitLive ==
    /\ scope = ScopeLive
    /\ calendar \in scope.calendars
    /\ engCall = NoCall
    /\ InitAgent

SpecLive == InitLive /\ [][Next]_vars /\ Fairness

(***************************************************************************)
(* Direct calls of the Availability Engine.                                *)
(***************************************************************************)

EngFindFreeSlots ==
    /\ engCall = NoCall
    /\ \E w \in EngWindows, d \in EngDurations, auth \in BOOLEAN, up \in BOOLEAN :
           /\ engCall' = [op |-> "find_free_slots", start |-> w[1], end |-> w[2],
                          duration |-> d, auth |-> auth, up |-> up,
                          busy |-> FreeBusyQuery(calendar, w[1], w[2]),
                          out |-> find_free_slots(auth, calendar, up, w[1], w[2], d)]
           /\ UNCHANGED <<calendar, agentVars>>

EngGetAvailability ==
    /\ engCall = NoCall
    /\ \E w \in EngWindows, d \in EngDurations, auth \in BOOLEAN, up \in BOOLEAN :
           /\ engCall' = [op |-> "get_availability", start |-> w[1], end |-> w[2],
                          duration |-> d, auth |-> auth, up |-> up,
                          busy |-> FreeBusyQuery(calendar, w[1], w[2]),
                          out |-> get_availability(auth, calendar, up, w[1], w[2], d)]
           /\ UNCHANGED <<calendar, agentVars>>

EngCheckAvailability ==
    /\ engCall = NoCall
    /\ \E w \in EngWindows, auth \in BOOLEAN, up \in BOOLEAN :
           /\ engCall' = [op |-> "check_availability", start |-> w[1], end |-> w[2],
                          duration |-> 0, auth |-> auth, up |-> up,
                          busy |-> FreeBusyQuery(calendar, w[1], w[2]),
                          out |-> check_availability(auth, calendar, up, w[1], w[2])]
           /\ UNCHANGED <<calendar, agentVars>>

InitEngine ==
    /\ calendar \in EngCalendars
    /\ engCall = NoCall
    /\ scope = NoScope
    /\ InitAgent

NextEngine ==
    \/ EngFindFreeSlots
    \/ EngGetAvailability
    \/ EngCheckAvailability

SpecEngine == InitEngine /\ [][NextEngine]_vars

(***************************************************************************)
(* The Temporal Resolver and the Intent Classifier on their own: one call  *)
(* on one text, at a reference time on any weekday, in any zone.           *)
(***************************************************************************)
\* 09:00 and 20:00 UTC of every day of the week; the later is past midnight in
\* the zone ahead of UTC
ReferenceNows == {At(day, hour) : day \in 0..(DaysPerWeek - 1), hour \in {9, 20}}

ResolverTexts ==
    WeekdayMessages \cup NamedPeriodMessages \cup
    {MsgHello, MsgFreeTomorrow, MsgTomorrow2pm, MsgToday2pm, MsgTomorrow2pm45min,
     MsgTomorrow2pm2hours, MsgTomorrow2pmAnHour, MsgRangeWeek, MsgRangeNextWeek,
     MsgRangeTomorrow, MsgBetween11And2pm, MsgFrom3pmTo5, Msg5To3pm,
     MsgDayAfterTomorrow2pm}

ClassifierTexts ==
    {MsgHello, MsgBookIt, MsgWhatTime, MsgTomorrow2pm, MsgFreeTomorrow, MsgBookWhenFree,
     MsgBookWhatTime, MsgScheduleOpenSlot, MsgCancelIt}

\* the state of the first turn of a session that sends text
FirstTurn(text, user_timezone) ==
    Begin(EmptyContext, "A", user_timezone, <<User(text)>>)

\* DateTimeParser.parse(text, user_timezone)
ResolveParse ==
    /\ engCall = NoCall
    /\ \E text \in ResolverTexts, off \in Zones :
           \E out \in {parse(text, wallClock, off)} :
               engCall' = [op |-> "parse", text |-> text, now |-> wallClock, off |-> off,
                           out |-> out]
    /\ UNCHANGED <<calendar, agentVars>>

\* DateTimeParser._parse_date_part(text, user_timezone)
ResolveDatePart ==
    /\ engCall = NoCall
    /\ \E text \in ResolverTexts, off \in Zones :
           \E out \in {_parse_date_part(text, wallClock, off)} :
               engCall' = [op |-> "_parse_date_part", text |-> text, now |-> wallClock,
                           off |-> off, out |-> out]
    /\ UNCHANGED <<calendar, agentVars>>

\* CalendarAgent._parse_datetime on the first turn of a session
ResolveStage ==
    /\ engCall = NoCall
    /\ \E text \in ResolverTexts, off \in Zones :
           \E out \in {_parse_datetime(FirstTurn(text, off), wallClock)} :
               engCall' = [op |-> "_parse_datetime", text |-> text, now |-> wallClock,
                           off |-> off, out |-> out.extracted_datetime]
    /\ UNCHANGED <<calendar, agentVars>>

\* CalendarAgent._parse_intent on the first turn of a session
Classify ==
    /\ engCall = NoCall
    /\ \E text \in ClassifierTexts, llm \in LLMReplies :
           \E out \in {_parse_intent(FirstTurn(text, UTC), llm)} :
               engCall' = [op |-> "_parse_intent", text |-> text, llm |-> llm,
                           out |-> out.intent]
    /\ UNCHANGED <<calendar, agentVars>>

InitParse ==
    /\ calendar = <<>>
    /\ engCall = NoCall
    /\ scope = NoScope
    /\ wallClock \in ReferenceNows
    /\ session_contexts = [sid \in Sessions |-> Absent]
    /\ turn = [sid \in Sessions |-> IdleTurn]
    /\ shadow = [sid \in Sessions |-> IdleTurn]
    /\ alone = [sid \in Sessions |-> Absent]
    /\ lastResolved = [sid \in Sessions |-> NoSpec]
    /\ sessions = [sid \in Sessions |-> NewSession]

NextParse ==
    \/ ResolveParse
    \/ ResolveDatePart
    \/ ResolveStage
    \/ Classify

SpecParse == InitParse /\ [][NextParse]_vars

(***************************************************************************)
(* Calls that never answer.  The calls of the generation capability        *)
(* (self.llm.invoke) and of the Calendar Provider (...execute()) are made  *)
(* with no timeout argument and nothing around them bounds the wait: a     *)
(* stage whose call has no answer stays in the call.                       *)
(***************************************************************************)
\* the stage is about to call self.llm.invoke
CallsGeneration(state) ==
    \/ state.pc = "parse_intent" /\ state.messages # <<>>
    \/ /\ state.pc = "generate_response"
       /\ \/ state.intent = "check_availability" /\ ~HasError(state) /\ HasSlots(state)
          \/ state.intent \notin {"check_availability", "book_appointment",
                                  "modify_appointment"}

\* the stage is about to query the Calendar Provider
CallsProvider(state, now, cal) ==
    /\ state.pc = "check_availability"
    /\ _check_availability(state, now, cal, TRUE, [k \in 1..DaysPerWeek |-> TRUE]).calls
           # <<>>

GenerationNeverAnswers ==
    \E sid \in scope.sessions :
        /\ CallsGeneration(turn[sid])
        /\ turn' = [turn EXCEPT ![sid].pc = "awaiting_generation"]
        /\ shadow' = [shadow EXCEPT ![sid].pc = "awaiting_generation"]
        /\ UNCHANGED <<engineVars, wallClock, session_contexts, scope, sessions, alone,
                       lastResolved>>

ProviderNeverAnswers ==
    \E sid \in scope.sessions :
        /\ TRUE \in scope.auth
        /\ CallsProvider(turn[sid], wallClock, calendar)
        /\ turn' = [turn EXCEPT ![sid].pc = "awaiting_provider"]
        /\ shadow' = [shadow EXCEPT ![sid].pc = "awaiting_provider"]
        /\ UNCHANGED <<engineVars, wallClock, session_contexts, scope, sessions, alone,
                       lastResolved>>

NextAwait ==
    \/ Next
    \/ GenerationNeverAnswers
    \/ ProviderNeverAnswers

\* the turns of SpecLive, with calls that may have no answer
SpecAwait == InitLive /\ [][NextAwait]_vars /\ Fairness

(***************************************************************************)
(* Two /chat requests of one session, with nothing that keeps the second   *)
(* from starting while the first is awaited.  chat_endpoint and            *)
(* process_message run without suspension up to "await graph.ainvoke" and  *)
(* again from its return to the response.                                  *)
(***************************************************************************)
Requests == {"r1", "r2"}
ChatSession == "A"
ChatTexts == {MsgHello, MsgWhatTime, MsgTomorrow2pm}

ScopeChat ==
    Scope(Requests, {}, {UTC}, {<<>>}, {LLMFailure}, {TRUE},
          {[k \in 1..DaysPerWeek |-> TRUE]})

InFlight(state) == state.pc \notin {"idle", "done"}

\* the turns after request w has started one for the session: the new turn, and
\* the turns of the session it overlaps
Started(turns, w, begun) ==
    LET others == {v \in DOMAIN turns \ {w} :
                       InFlight(turns[v]) /\ turns[v].session_id = begun.session_id}
    IN  [v \in DOMAIN turns |->
             IF v = w THEN [begun EXCEPT !.overlapped = others # {}]
             ELSE IF v \in others THEN [turns[v] EXCEPT !.overlapped = TRUE]
             ELSE turns[v]]

\* chat_endpoint, lines 166-176, and process_message, lines 113-133: the message
\* is appended to the session's history list, the messages of the turn are built
\* from the list and the session's context is copied
ChatStart ==
    \E w \in scope.sessions, text \in ChatTexts, user_timezone \in scope.zones :
        /\ turn[w].pc = "idle"
        /\ \E history \in {Append(sessions[ChatSession].conversation_history, User(text))} :
               /\ sessions' = [sessions EXCEPT ![ChatSession].conversation_history = history]
               /\ turn' = Started(turn, w, Begin(LoadContext(session_contexts, ChatSession),
                                                 ChatSession, user_timezone, history))
               /\ shadow' = turn'
        /\ UNCHANGED <<engineVars, wallClock, session_contexts, scope, alone, lastResolved>>

\* process_message, lines 137-158, and chat_endpoint, lines 181-182: the context
\* of the turn is stored for the session and the history the turn returns
\* replaces the session's
ChatReturn ==
    \E w \in scope.sessions :
        /\ turn[w].pc = "end"
        /\ session_contexts' =
               StoreContext(session_contexts, turn[w].session_id, turn[w].context)
        /\ sessions' = [sessions EXCEPT ![turn[w].session_id].conversation_history =
                                            Result(turn[w]).conversation_history]
        /\ turn' = [turn EXCEPT ![w] = Return(@)]
        /\ shadow' = turn'
        /\ lastResolved' = IF turn[w].resolved = NoSpec THEN lastResolved
                           ELSE [lastResolved EXCEPT ![turn[w].session_id] = turn[w].resolved]
        /\ UNCHANGED <<engineVars, wallClock, scope, alone>>

InitChat ==
    /\ scope = ScopeChat
    /\ calendar \in scope.calendars
    /\ engCall = NoCall
    /\ wallClock = NowStart
    /\ session_contexts = [sid \in Sessions |-> Absent]
    /\ turn = [w \in Requests |-> IdleTurn]
    /\ shadow = turn
    /\ alone = [sid \in Sessions |-> Absent]
    /\ lastResolved = [sid \in Sessions |-> NoSpec]
    /\ sessions = [sid \in Sessions |-> NewSession]

NextChat ==
    \/ ChatStart
    \/ ParseIntent
    \/ ParseTime
    \/ CheckAvailability
    \/ GenerateResponse
    \/ ChatReturn

SpecChat == InitChat /\ [][NextChat]_vars

(***************************************************************************)
(* /confirm-booking called a second time with a payload it has already     *)
(* been called with.  execute_booking holds no await: a call runs to its   *)
(* end before the next one starts.                                         *)
(***************************************************************************)
ConfirmAgain ==
    \E sid \in scope.sessions, auth \in scope.auth, up \in scope.up :
        /\ turn[sid].pc = "done"
        /\ turn[sid].booking # NoBooking
        /\ engCall = NoCall
        /\ Len(calendar) < MaxEvents
        /\ \E booked \in {execute_booking(turn[sid].result.confirmation_data, auth,
                                           calendar, up)} :
               /\ engCall' = [op |-> "execute_booking",
                              confirmation_data |-> turn[sid].result.confirmation_data,
                              first |-> turn[sid].booking, before |-> calendar,
                              out |-> booked]
               /\ calendar' = booked.calendar
        /\ UNCHANGED agentVars

\* booking turns for one time and one range, with the rule-based intent
ScopeConfirm(zone) ==
    Scope({"A"}, HistoriesOf({MsgTomorrow2pm, MsgRangeTomorrow}), {zone}, {<<>>, CalOneGap},
          {LLMFailure}, BOOLEAN, Answers)

InitConfirm ==
    /\ scope \in {ScopeConfirm(zone) : zone \in Zones}
    /\ calendar \in scope.calendars
    /\ engCall = NoCall
    /\ InitAgent

NextConfirm ==
    \/ StartTurn
    \/ ParseIntent
    \/ ParseTime
    \/ CheckAvailability
    \/ GenerateResponse
    \/ ReturnTurn
    \/ ExecuteBooking
    \/ ConfirmAgain

SpecConfirm == InitConfirm /\ [][NextConfirm]_vars

(***************************************************************************)
(* Turns of one session whose messages state a duration, or none, or no    *)
(* time at all, at two times of the clock.                                 *)
(***************************************************************************)
DurationTexts ==
    {MsgWhatTime, MsgTomorrow2pm, MsgTomorrow2pmAnHour, MsgTomorrow2pm0min, MsgRangeWeek,
     MsgOneHourRangeWeek, MsgFreeTomorrow, MsgFreeTomorrowAnHour, MsgInTheMorning,
     Msg45MinuteCallMorning}

ScopeDuration(zone) ==
    Scope({"A"}, HistoriesOf(DurationTexts), {zone}, {<<>>, CalUnsorted},
          {LLMFailure, LLMAnswer({"check_availability"})}, {TRUE},
          {[k \in 1..DaysPerWeek |-> TRUE]})

\* Wednesday 09:00 UTC, or Monday 03:00 UTC
DurationNows == {NowStart, At(0, 3)}

InitDuration ==
    /\ scope \in {ScopeDuration(zone) : zone \in Zones}
    /\ calendar \in scope.calendars
    /\ engCall = NoCall
    /\ wallClock \in DurationNows
    /\ session_contexts = [sid \in Sessions |-> Absent]
    /\ turn = [sid \in Sessions |-> IdleTurn]
    /\ shadow = [sid \in Sessions |-> IdleTurn]
    /\ alone = [sid \in Sessions |-> Absent]
    /\ lastResolved = [sid \in Sessions |-> NoSpec]
    /\ sessions = [sid \in Sessions |-> NewSession]

NextDuration ==
    \/ StartTurn
    \/ ParseIntent
    \/ ParseTime
    \/ CheckAvailability
    \/ GenerateResponse
    \/ ReturnTurn

SpecDuration == InitDuration /\ [][NextDuration]_vars

Carved == engCall.op \in {"find_free_slots", "get_availability"} /\ ~engCall.out.raised

(***************************************************************************)
(* C1: every slot returned by find_free_slots / get_availability is        *)
(* exactly the requested duration long and overlaps no supplied busy       *)
(* interval under the half-open test, for any busy set (unsorted,          *)
(* overlapping or nested), window and positive duration.                   *)
(***************************************************************************)
C1_SlotsExactAndFree ==
    Carved =>
        \A k \in 1..Len(engCall.out.slots) :
            LET slot == engCall.out.slots[k]
            IN  /\ slot.end - slot.start = engCall.duration
                /\ \A j \in 1..Len(engCall.busy) :
                       ~Overlaps(slot.start, slot.end, engCall.busy[j])

(***************************************************************************)
(* C2: the list of free slots produced for a turn, from one window or from *)
(* the windows of the days of a multi-day range, is strictly ascending by  *)
(* start time, so it holds no slot twice.                                  *)
(***************************************************************************)
StrictlyAscending(slots) ==
    \A k \in 1..(Len(slots) - 1) : slots[k].start < slots[k + 1].start

C2_SlotsAscending ==
    \A sid \in Sessions : StrictlyAscending(turn[sid].available_slots.list)

\* a multi-day range answered with slots of several days, around busy intervals
C2_Witness ==
    \E sid \in Sessions :
        LET slots == turn[sid].available_slots.list
        IN  /\ Len(turn[sid].calls) > 2
            /\ Len(calendar) > 1
            /\ Len(slots) > 2
            /\ slots[Len(slots)].start - slots[1].start > MinutesPerDay

(***************************************************************************)
(* C3: check_availability(start, end) returns true if and only if no busy  *)
(* interval of the calendar satisfies start < busy.end and end >           *)
(* busy.start.                                                             *)
(***************************************************************************)
C3_PointCheckIff ==
    engCall.op = "check_availability" =>
        (engCall.out <=>
            \A j \in 1..Len(calendar) : ~Overlaps(engCall.start, engCall.end, calendar[j]))

(***************************************************************************)
(* C4: the branch taken after ParseTime is the decision table: an error in *)
(* the context -> GenerateResponse; else book_appointment with a spec and  *)
(* slots -> GenerateResponse, with a spec and no slots ->                  *)
(* CheckAvailability, with no spec -> GenerateResponse; check_availability *)
(* -> CheckAvailability; any other intent -> GenerateResponse.             *)
(***************************************************************************)
DecisionTable(error, intent, has_spec, has_slots) ==
    CASE error -> "generate_response"
      [] ~error /\ intent = "book_appointment" /\ has_spec /\ has_slots -> "generate_response"
      [] ~error /\ intent = "book_appointment" /\ has_spec /\ ~has_slots -> "check_availability"
      [] ~error /\ intent = "book_appointment" /\ ~has_spec -> "generate_response"
      [] ~error /\ intent = "check_availability" -> "check_availability"
      [] OTHER -> "generate_response"

AtBranch(state) ==
    state.pc \in {"check_availability", "generate_response"}
        /\ Last(state.visited) = "parse_datetime"

C4_DecisionTable ==
    \A sid \in Sessions :
        AtBranch(turn[sid]) =>
            turn[sid].pc = DecisionTable(turn[sid].context.error # None, turn[sid].intent,
                                         turn[sid].extracted_datetime # NoSpec,
                                         turn[sid].available_slots.list # <<>>)

\* a booking turn with a spec and no slots yet is sent to CheckAvailability
C4_Witness ==
    \E sid \in Sessions :
        /\ AtBranch(turn[sid])
        /\ turn[sid].intent = "book_appointment"
        /\ turn[sid].extracted_datetime # NoSpec
        /\ turn[sid].pc = "check_availability"

(***************************************************************************)
(* C5: every turn runs ParseIntent, ParseTime, optionally                  *)
(* CheckAvailability, then GenerateResponse, each at most once and never   *)
(* CheckAvailability after GenerateResponse, and always reaches Done.      *)
(***************************************************************************)
StageOrders ==
    {<<>>,
     <<"parse_intent">>,
     <<"parse_intent", "parse_datetime">>,
     <<"parse_intent", "parse_datetime", "generate_response">>,
     <<"parse_intent", "parse_datetime", "check_availability">>,
     <<"parse_intent", "parse_datetime", "check_availability", "generate_response">>}

InOrder(state) ==
    /\ state.visited \in StageOrders
    /\ state.pc = "end" => Last(state.visited) = "generate_response"
    /\ state.pc = "done" /\ ~state.result.failed => Last(state.visited) = "generate_response"

C5_StagesInOrderToDone ==
    /\ [](\A sid \in Sessions : InOrder(turn[sid]))
    /\ \A sid \in Sessions : (turn[sid].pc = "parse_intent") ~> (turn[sid].pc = "done")

\* a turn that went through all four stages and is done
C5_Witness ==
    \E sid \in Sessions :
        /\ turn[sid].pc = "done"
        /\ Len(turn[sid].visited) = 4

(***************************************************************************)
(* C6: a failure inside any stage is recorded in context.error and the     *)
(* turn goes directly to GenerateResponse, which answers with an apology.  *)
(***************************************************************************)
DirectlyToResponse(state) ==
    \A i \in 1..Len(state.visited) :
        state.visited[i] \in state.failed =>
            IF i < Len(state.visited)
            THEN state.visited[i + 1] = "generate_response"
            ELSE state.pc = "generate_response"

C6_FailureContained ==
    \A sid \in Sessions :
        turn[sid].failed # {} =>
            /\ HasError(turn[sid])
            /\ DirectlyToResponse(turn[sid])
            /\ turn[sid].pc \in {"end", "done"} =>
                   Last(turn[sid].messages).content.kind = "issue"

(***************************************************************************)
(* C7: the history process_message returns is the input history, item for  *)
(* item and in order, followed by exactly one new assistant message,       *)
(* whether the turn succeeded or failed.                                   *)
(***************************************************************************)
C7_HistoryPreserved ==
    \A sid \in Sessions :
        turn[sid].pc = "done" =>
            LET history == turn[sid].history
                returned == turn[sid].result.conversation_history
            IN  /\ Len(returned) = Len(history) + 1
                /\ \A k \in 1..Len(history) : returned[k] = history[k]
                /\ Last(returned).role = "assistant"

\* a turn with earlier messages in its history that ended with an error
C7_Witness ==
    \E sid \in Sessions :
        /\ turn[sid].pc = "done"
        /\ Len(turn[sid].history) > 2
        /\ ~turn[sid].result.failed
        /\ HasError(turn[sid])

(***************************************************************************)
(* C8: in a turn whose resolver returns null, the orchestrator uses the    *)
(* session's last discussed spec if there is one, and otherwise a window   *)
(* from now to now + 7 days with a 30-minute duration.                     *)
(***************************************************************************)
ResolverNull(state) ==
    state.pc \in {"end", "done"} /\ state.resolver_ran /\ state.resolved = NoSpec

Visited(state, stage) == \E i \in 1..Len(state.visited) : state.visited[i] = stage

UsesSticky(state) ==
    /\ state.extracted_datetime = state.context_in.last_discussed_datetime
    /\ \A i \in 1..Len(state.calls) : state.calls[i].duration = DefaultDuration

UsesDefault(state) ==
    state.calls = <<Call("get_availability", state.checked_at,
                         state.checked_at + LookaheadDays * MinutesPerDay, DefaultDuration)>>

StickyOrDefault(state) ==
    IF state.context_in.last_discussed_datetime # NoSpec
    THEN UsesSticky(state)
    ELSE UsesDefault(state)

\* C8 as the specification words it: whatever the intent
C8_WhateverTheIntent ==
    \A sid \in Sessions : ResolverNull(turn[sid]) => StickyOrDefault(turn[sid])

\* C8, amended: in the turns that run CheckAvailability with an authenticated
\* calendar service; the other turns with a null resolver use no spec and no window
C8_StickyOrDefault ==
    \A sid \in Sessions :
        ResolverNull(turn[sid]) =>
            IF Visited(turn[sid], "check_availability")
            THEN turn[sid].context.error # "Not authenticated with Google Calendar"
                     => StickyOrDefault(turn[sid])
            ELSE turn[sid].extracted_datetime = NoSpec /\ turn[sid].calls = <<>>

\* a turn without a time of its own that searched the spec of an earlier turn
C8_Witness ==
    \E sid \in Sessions :
        /\ ResolverNull(turn[sid])
        /\ Visited(turn[sid], "check_availability")
        /\ turn[sid].context_in.last_discussed_datetime # NoSpec
        /\ turn[sid].extracted_datetime = turn[sid].context_in.last_discussed_datetime
        /\ turn[sid].calls # <<>>

(***************************************************************************)
(* C9: the stored last discussed spec of a session is the spec of its most *)
(* recent turn that resolved one; a turn that resolves none, also one that *)
(* ends in an error, leaves it unchanged.                                  *)
(***************************************************************************)
C9_LastDiscussedIsLastResolved ==
    \A sid \in Sessions :
        Loaded(session_contexts[sid]).last_discussed_datetime = lastResolved[sid]

\* a stored spec that outlived a turn which resolved none and ended in an error
C9_Witness ==
    \E sid \in Sessions :
        /\ turn[sid].pc = "done"
        /\ turn[sid].resolver_ran
        /\ turn[sid].resolved = NoSpec
        /\ HasError(turn[sid])
        /\ lastResolved[sid] # NoSpec
        /\ session_contexts[sid].last_discussed_datetime = lastResolved[sid]

(***************************************************************************)
(* C10: the context and the outputs of a session's turns are what they are *)
(* when the other session's turns never run.                               *)
(***************************************************************************)
C10_SessionsIsolated ==
    \A sid \in Sessions :
        /\ turn[sid] = shadow[sid]
        /\ session_contexts[sid] = alone[sid]

\* two sessions with different stored contexts, one of them in a turn
C10_Witness ==
    /\ session_contexts["A"] # Absent
    /\ session_contexts["B"] # Absent
    /\ session_contexts["A"] # session_contexts["B"]
    /\ turn["A"].pc = "done"
    /\ turn["B"].pc = "generate_response"


(***************************************************************************)
(* C11: at the end of every turn needs_confirmation is true only if the    *)
(* intent is book_appointment, context.error is unset, exactly one slot is *)
(* in available_slots and a confirmation payload carrying that slot's      *)
(* bounds is populated; in every other case needs_confirmation is false    *)
(* and there is no payload.                                                *)
(***************************************************************************)
\* the payload's bounds are the instants of the slot, written in UTC
CarriesSlot(confirmation_data, slot) ==
    /\ confirmation_data # NoConfirmation
    /\ fromisoformat(confirmation_data.start_time) = Aware(slot.start, UTC)
    /\ fromisoformat(confirmation_data.end_time) = Aware(slot.end, UTC)

Ended(state) == state.pc \in {"end", "done"}

\* the assistant's message of the turn
Said(state) == Last(state.messages).content

C11_ConfirmationOnlyForOneSlot ==
    \A sid \in Sessions :
        LET state == turn[sid]
        IN  /\ state.needs_confirmation =>
                   /\ Ended(state)
                   /\ state.intent = "book_appointment"
                   /\ state.context.error = None
                   /\ Len(state.available_slots.list) = 1
                   /\ CarriesSlot(state.confirmation_data, state.available_slots.list[1])
            /\ ~state.needs_confirmation => state.confirmation_data = NoConfirmation
            /\ state.pc = "done" =>
                   /\ state.result.needs_confirmation = state.needs_confirmation
                   /\ state.result.confirmation_data = state.confirmation_data

\* a turn returned a payload in the zone ahead of UTC: its bounds read another
\* hour than the proposed local time
C11_Witness ==
    \E sid \in Sessions :
        /\ turn[sid].pc = "done"
        /\ turn[sid].result.needs_confirmation
        /\ turn[sid].user_timezone # UTC
        /\ turn[sid].result.confirmation_data.start_time.hour # Said(turn[sid]).formatted_time.hour

(***************************************************************************)
(* C12: a book_appointment turn with a spec present whose requested slot   *)
(* is found not free ends with needs_confirmation = false, a response that *)
(* lists alternative times (at most 5) and context.requested_slot_busy =   *)
(* true.  Stated for turns in which no stage failed and which started with *)
(* no error and no requested_slot_past in the context.                     *)
(***************************************************************************)
\* the point check of the turn answered "not free" and the day was searched
FoundBusy(state) == Len(state.calls) = 2 /\ state.calls[1].op = "check_availability"

BookingTurnFoundBusy(state) ==
    /\ state.pc = "done"
    /\ state.intent = "book_appointment"
    /\ state.extracted_datetime # NoSpec
    /\ FoundBusy(state)
    /\ state.failed = {}
    /\ state.context_in.error = None
    /\ ~state.context_in.requested_slot_past

C12_BusySlotGetsAlternatives ==
    \A sid \in Sessions :
        BookingTurnFoundBusy(turn[sid]) =>
            /\ ~turn[sid].result.needs_confirmation
            /\ turn[sid].result.context.requested_slot_busy
            /\ Said(turn[sid]).kind \in {"slot_busy_alternatives", "slot_list"}
            /\ Len(Said(turn[sid]).times) <= MaxAlternatives

(***************************************************************************)
(* C13: in any turn of a session, first or later, with intent              *)
(* book_appointment, a spec present and exactly one free slot, the result  *)
(* has needs_confirmation = true, the payload's UTC start and end are that *)
(* slot's, and the response states the proposed local time.                *)
(***************************************************************************)
BookingTurnWithOneSlot(state) ==
    /\ state.pc = "done"
    /\ ~state.result.failed
    /\ state.intent = "book_appointment"
    /\ state.extracted_datetime # NoSpec
    /\ Len(state.available_slots.list) = 1

C13_OneSlotIsProposed ==
    \A sid \in Sessions :
        BookingTurnWithOneSlot(turn[sid]) =>
            LET slot == turn[sid].available_slots.list[1]
            IN  /\ turn[sid].result.needs_confirmation
                /\ CarriesSlot(turn[sid].result.confirmation_data, slot)
                /\ Said(turn[sid]).kind = "confirm_booking"
                /\ Said(turn[sid]).formatted_time =
                       strftime(Aware(slot.start, turn[sid].user_timezone))

(***************************************************************************)
(* C14: the proposed local start time T in zone Z, converted to UTC for    *)
(* the payload and converted back to Z at booking time, is T again, to the *)
(* minute (zones are fixed offsets).                                       *)
(***************************************************************************)
Booked(state) == state.booking # NoBooking /\ state.booking.status = "success"

C14_PayloadRoundTrip ==
    \A sid \in Sessions :
        (turn[sid].pc = "done" /\ turn[sid].result.needs_confirmation) =>
            LET proposed == Said(turn[sid]).formatted_time
                payload == turn[sid].result.confirmation_data
                back == astimezone(fromisoformat(payload.start_time), payload.user_timezone)
            IN  /\ strftime(back) = proposed
                /\ Booked(turn[sid]) => turn[sid].booking.formatted_time_local = proposed

\* a booking made in the zone ahead of UTC, where the payload's hour and minute
\* are not those of the proposed time
C14_Witness ==
    \E sid \in Sessions :
        /\ Booked(turn[sid])
        /\ turn[sid].booking.user_timezone # UTC
        /\ turn[sid].result.confirmation_data.start_time.minute
               # turn[sid].booking.formatted_time_local.minute
        /\ turn[sid].booking.event_start = turn[sid].result.confirmation_data.start_time

(***************************************************************************)
(* C15: resolving a weekday name, for any reference weekday, yields a date *)
(* 1 to 7 days after the reference day, 7 when the named weekday is the    *)
(* reference day's own and never the reference day itself, and exactly 7   *)
(* days more when the text carries the modifier "next".                    *)
(***************************************************************************)
\* the days from a weekday to the nearest later day that is the named one: 1..7
NearestLater(named, reference) == ((named - reference - 1) % DaysPerWeek) + 1

ResolvesWeekday ==
    /\ engCall.op \in {"parse", "_parse_date_part"}
    /\ engCall.text \in WeekdayMessages

\* the local date the call answered with
ResolvedDate ==
    IF engCall.op = "parse" THEN LocalDate(engCall.out.start, engCall.off)
    ELSE LocalDate(engCall.out, engCall.off)

C15_WeekdayOneToSevenDaysAhead ==
    ResolvesWeekday =>
        LET named == engCall.text.fuzzy.weekday
            reference == LocalDate(engCall.now, engCall.off)
            nearest == NearestLater(named, LocalWeekday(engCall.now, engCall.off))
        IN  /\ engCall.op = "parse" => engCall.out # NoSpec
            /\ nearest \in 1..DaysPerWeek
            /\ ResolvedDate - reference =
                   IF Contains(engCall.text, "next") THEN nearest + DaysPerWeek ELSE nearest
            /\ ResolvedDate % DaysPerWeek = named

\* the reference day's own weekday is named, in a zone where the local day is
\* already the next one, and the answer is a week later
C15_Witness ==
    /\ ResolvesWeekday
    /\ engCall.op = "parse"
    /\ ~Contains(engCall.text, "next")
    /\ engCall.text.fuzzy.weekday = LocalWeekday(engCall.now, engCall.off)
    /\ LocalDate(engCall.now, engCall.off) # LocalDate(engCall.now, UTC)
    /\ ResolvedDate = LocalDate(engCall.now, engCall.off) + DaysPerWeek

(***************************************************************************)
(* C16: a clock-time range with "this week" ("3-5 pm this week") resolves, *)
(* for any reference weekday, to is_range = true with the start on that    *)
(* week's Monday at the range's start hour and the end on that week's      *)
(* Sunday at the range's end hour; with "next week" the bounds are the     *)
(* following week's Monday and Sunday.                                     *)
(***************************************************************************)
ResolvesWeekRange ==
    /\ engCall.op = "parse"
    /\ engCall.text \in {MsgRangeWeek, MsgRangeNextWeek}

\* the local date of the Monday of the reference day's week
MondayOf(now, off) == LocalDate(now, off) - LocalWeekday(now, off)

C16_WeekRangeMondayToSunday ==
    ResolvesWeekRange =>
        LET off == engCall.off
            out == engCall.out
            monday == IF engCall.text = MsgRangeWeek THEN MondayOf(engCall.now, off)
                      ELSE MondayOf(engCall.now, off) + DaysPerWeek
        IN  /\ out # NoSpec
            /\ out.is_range
            /\ LocalDate(out.start, off) = monday
            /\ LocalWeekday(out.start, off) = 0
            /\ <<LocalHour(out.start, off), LocalMinute(out.start, off)>> = <<15, 0>>
            /\ LocalDate(out.end, off) = monday + 6
            /\ LocalWeekday(out.end, off) = 6
            /\ <<LocalHour(out.end, off), LocalMinute(out.end, off)>> = <<17, 0>>

\* "3-5 pm this week" asked on a local Sunday that is still Saturday in UTC: the
\* range starts six days before the reference day
C16_Witness ==
    /\ ResolvesWeekRange
    /\ engCall.text = MsgRangeWeek
    /\ LocalWeekday(engCall.now, engCall.off) = 6
    /\ LocalWeekday(engCall.now, UTC) = 5
    /\ LocalDate(engCall.out.start, engCall.off) = LocalDate(engCall.now, engCall.off) - 6
    /\ LocalDate(engCall.out.end, engCall.off) = LocalDate(engCall.now, engCall.off)

(***************************************************************************)
(* C17: a message with a relative day and an explicit clock time, and no   *)
(* range or named period ("tomorrow at 2 pm"), resolves to is_range =      *)
(* false, start = that day at that clock time, end = start + duration,     *)
(* the duration being the one the text states, or 30 minutes when it       *)
(* states none.                                                            *)
(***************************************************************************)
\* the messages that say "today" or "tomorrow", "at 2 pm", and perhaps a duration
RelativeDayAt2pm ==
    {MsgTomorrow2pm, MsgToday2pm, MsgTomorrow2pmAnHour, MsgTomorrow2pm45min,
     MsgTomorrow2pm2hours}

SaidDay(text, now, off) ==
    IF Contains(text, "tomorrow") THEN LocalDate(now, off) + 1 ELSE LocalDate(now, off)

C17_RelativeDayAtClockTime ==
    (engCall.op = "parse" /\ engCall.text \in RelativeDayAt2pm) =>
        LET out == engCall.out
            start == AtLocal(SaidDay(engCall.text, engCall.now, engCall.off), 14, 0,
                             engCall.off)
        IN  /\ out # NoSpec
            /\ ~out.is_range
            /\ out.start = start
            /\ out.end = start + DurationOr(extract_duration(engCall.text), DefaultDuration)

(***************************************************************************)
(* C18: every non-null spec the resolver returns, and every spec the       *)
(* orchestrator holds after ParseTime, has start <= end, explicit ranges   *)
(* such as "between 11 and 2 pm", "from 3 pm to 5" and "5-3 pm" included.  *)
(***************************************************************************)
Ordered(spec) == spec # NoSpec => spec.start <= spec.end

C18_StartNotAfterEnd ==
    /\ engCall.op \in {"parse", "_parse_datetime"} => Ordered(engCall.out)
    /\ \A sid \in Sessions : Ordered(turn[sid].extracted_datetime)

(***************************************************************************)
(* C19: whenever the generation capability fails, or answers with a text   *)
(* that names none of the four labels (an unexpected or empty answer), the *)
(* intent is the one the rule-based classifier gives for the message.      *)
(***************************************************************************)
NamesNoLabel(llm) == llm.failed \/ llm.labels \cap Intents = {}

C19_FallsThroughToRules ==
    (engCall.op = "_parse_intent" /\ NamesNoLabel(engCall.llm)) =>
        engCall.out = RuleBasedIntent(engCall.text)

(***************************************************************************)
(* C20: in the rule-based classifier, a message with a booking verb and an *)
(* availability word (available, free, open, what time, any slot) is       *)
(* classified check_availability, not book_appointment.                    *)
(***************************************************************************)
BookingVerbs == {"book", "schedule", "set up", "arrange", "plan", "create", "add"}
AvailabilityWords == {"available", "free", "open", "what.*time", "any.*slot"}

Says(text, words) == \E word \in words : Contains(text, word)

C20_AvailabilityWinsTie ==
    (/\ engCall.op = "_parse_intent"
     /\ engCall.llm.failed
     /\ Says(engCall.text, BookingVerbs)
     /\ Says(engCall.text, AvailabilityWords)) =>
        engCall.out = "check_availability"

(***************************************************************************)
(* C21: intent classification always yields exactly one of                 *)
(* book_appointment, check_availability, modify_appointment and            *)
(* general_query, whatever the message and whatever the generation         *)
(* capability does (a label, an empty or unexpected answer, a failure); on *)
(* the rule-based path a message that matches no keyword family yields     *)
(* general_query.                                                          *)
(***************************************************************************)
MatchesNoFamily(text) ==
    ~Says(text, booking_patterns \cup availability_patterns \cup modification_patterns)

C21_AlwaysOneOfFourIntents ==
    engCall.op = "_parse_intent" =>
        /\ engCall.out \in Intents
        /\ (engCall.llm.failed /\ MatchesNoFamily(engCall.text)) =>
               engCall.out = "general_query"

\* the generation capability failed on a message with no keyword of any family
C21_Witness ==
    /\ engCall.op = "_parse_intent"
    /\ engCall.llm.failed
    /\ MatchesNoFamily(engCall.text)
    /\ engCall.out = "general_query"

(***************************************************************************)
(* C22: whenever a Calendar Provider call of a turn fails (the point       *)
(* check, the free/busy lookup of a window, the 7-day default lookup), the *)
(* failure is recorded in context.error and the turn answers with the      *)
(* apologetic error response, never with "slot is busy" or "no slots       *)
(* available"; the failed call is the last the turn makes.                 *)
(***************************************************************************)
ProviderFailed(state) == Ended(state) /\ state.unanswered # {}

C22_ProviderFailureIsAnError ==
    \A sid \in Sessions :
        ProviderFailed(turn[sid]) =>
            /\ turn[sid].context.error # None
            /\ Said(turn[sid]).kind = "issue"
            /\ ~turn[sid].context.requested_slot_busy
            /\ \A k \in turn[sid].unanswered : k = Len(turn[sid].calls)

(***************************************************************************)
(* C23: when the turns of a session are serialized no update is lost: the  *)
(* stored history holds what every finished turn returned and the stored   *)
(* context the spec of the latest turn that resolved one.  When two turns  *)
(* of the session overlap, a state is reachable where what one turn wrote  *)
(* (its reply in the stored history, its spec in the stored context) has   *)
(* been overwritten by the other (C23_Witness).                            *)
(***************************************************************************)
IsPrefix(p, q) == Len(p) <= Len(q) /\ SubSeq(q, 1, Len(p)) = p

Serialized == \A w \in Requests : ~turn[w].overlapped

\* the stored history begins with all that request w's turn was given and returned
HistoryKept(w) ==
    LET stored == sessions[ChatSession].conversation_history
    IN  /\ InFlight(turn[w]) => IsPrefix(turn[w].history, stored)
        /\ turn[w].pc = "done" => IsPrefix(turn[w].result.conversation_history, stored)

ContextKept ==
    Loaded(session_contexts[ChatSession]).last_discussed_datetime = lastResolved[ChatSession]

C23_SerializedTurnsLoseNothing ==
    Serialized => (ContextKept /\ \A w \in Requests : HistoryKept(w))

\* two overlapping turns have both returned: the reply of one is not in the stored
\* history, and the spec it resolved is not in the stored context
C23_Witness ==
    /\ \A w \in Requests : turn[w].pc = "done" /\ turn[w].overlapped
    /\ \E w \in Requests : ~HistoryKept(w)
    /\ ~ContextKept

(***************************************************************************)
(* C24: every turn eventually returns a response, also when a call of the  *)
(* generation capability or of the Calendar Provider never answers.        *)
(***************************************************************************)
C24_EveryTurnReturns ==
    \A sid \in Sessions :
        (turn[sid].pc \notin {"idle", "done"}) ~> (turn[sid].pc = "done")

(***************************************************************************)
(* C25: for a clock-time range over several days the orchestrator searches *)
(* every calendar day from the range's start date to its end date, each in *)
(* the window from the range's start clock time to its end clock time of   *)
(* that day, leaves out a day whose window starts at or before now, and    *)
(* returns the slots of the days in day order.  One search is made per     *)
(* day, so the iteration ends.                                             *)
(***************************************************************************)
\* the turn searched a multi-day clock-time range, and no search failed
SearchedDaily(state) ==
    /\ Ended(state)
    /\ Visited(state, "check_availability")
    /\ state.context.error = None
    /\ state.extracted_datetime # NoSpec
    /\ state.extracted_datetime.is_range
    /\ ~state.extracted_datetime.is_full_day
    /\ LocalDate(state.extracted_datetime.end, state.extracted_datetime.off)
           > LocalDate(state.extracted_datetime.start, state.extracted_datetime.off)

\* the window of a local date: the clock times of the spec's bounds on that date
DayWindow(spec, date) ==
    [start |-> AtLocal(date, LocalHour(spec.start, spec.off),
                       LocalMinute(spec.start, spec.off), spec.off),
     end |-> AtLocal(date, LocalHour(spec.end, spec.off),
                     LocalMinute(spec.end, spec.off), spec.off)]

\* the dates of the range whose window starts after now, in order
DaysToSearch(spec, now) ==
    LET dates == {date \in LocalDate(spec.start, spec.off)..LocalDate(spec.end, spec.off) :
                      DayWindow(spec, date).start > now}
    IN  [k \in 1..Cardinality(dates) |->
             CHOOSE date \in dates : Cardinality({d \in dates : d < date}) = k - 1]

\* the free slots of the first n of the dates, date after date
RECURSIVE SlotsOfDays(_, _, _, _, _)
SlotsOfDays(spec, dates, n, duration, cal) ==
    IF n = 0 THEN <<>>
    ELSE SlotsOfDays(spec, dates, n - 1, duration, cal)
         \o find_free_slots(TRUE, cal, TRUE, DayWindow(spec, dates[n]).start,
                            DayWindow(spec, dates[n]).end, duration).slots

C25_EveryDayOfTheRangeInOrder ==
    \A sid \in Sessions :
        SearchedDaily(turn[sid]) =>
            LET spec == turn[sid].extracted_datetime
                duration == turn[sid].duration_minutes
                dates == DaysToSearch(spec, turn[sid].checked_at)
            IN  /\ Len(turn[sid].calls) = Len(dates)
                /\ \A k \in 1..Len(dates) :
                       turn[sid].calls[k] =
                           Call("find_free_slots", DayWindow(spec, dates[k]).start,
                                DayWindow(spec, dates[k]).end, duration)
                /\ turn[sid].available_slots.list =
                       SlotsOfDays(spec, dates, Len(dates), duration, calendar)

\* a week's range asked in the middle of the week: the days before today are left
\* out, today's window and three later ones are searched, and slots are found on a
\* day with busy periods
C25_Witness ==
    \E sid \in Sessions :
        /\ SearchedDaily(turn[sid])
        /\ Len(turn[sid].calls) >= 4
        /\ turn[sid].calls[1].start
               > DayWindow(turn[sid].extracted_datetime,
                           LocalDate(turn[sid].extracted_datetime.start,
                                     turn[sid].extracted_datetime.off)).start
        /\ calendar # <<>>
        /\ Len(turn[sid].available_slots.list) >= 4

(***************************************************************************)
(* C26: at the end of every turn, whichever path CheckAvailability took    *)
(* (the 7-day default, a multi-day range, one range or a full day, a       *)
(* specific time that is free, a specific time that is busy), every slot   *)
(* of available_slots starts strictly after the now of the turn.           *)
(***************************************************************************)
C26_SlotsStartAfterNow ==
    \A sid \in Sessions :
        Ended(turn[sid]) =>
            \A k \in 1..Len(turn[sid].available_slots.list) :
                turn[sid].available_slots.list[k].start > turn[sid].checked_at

\* the 7-day default: the engine's first slot starts at now and is dropped
C26_Witness ==
    \E sid \in Sessions :
        /\ turn[sid].pc = "done"
        /\ Len(turn[sid].calls) = 1
        /\ turn[sid].calls[1].op = "get_availability"
        /\ turn[sid].calls[1].start = turn[sid].checked_at
        /\ HasSlots(turn[sid])
        /\ turn[sid].available_slots.list[1].start
               = turn[sid].checked_at + turn[sid].duration_minutes

(***************************************************************************)
(* C27: when a single specific requested time is busy, the alternatives    *)
(* are at most 5 free slots, all on the calendar day of the requested      *)
(* time, none starting before the requested time, in chronological order.  *)
(***************************************************************************)
\* the provider answered the point check with a busy period that overlaps, and
\* the search of the day returned
SearchedAlternatives(state) ==
    Ended(state) /\ FoundBusy(state) /\ state.unanswered = {} /\ state.context.error = None

C27_AlternativesFromRestOfDay ==
    \A sid \in Sessions :
        SearchedAlternatives(turn[sid]) =>
            LET spec == turn[sid].extracted_datetime
                alternatives == turn[sid].available_slots.list
            IN  /\ Len(alternatives) <= MaxAlternatives
                /\ StrictlyAscending(alternatives)
                /\ \A k \in 1..Len(alternatives) :
                       /\ LocalDate(alternatives[k].start, spec.off)
                              = LocalDate(spec.start, spec.off)
                       /\ alternatives[k].start >= spec.start

(***************************************************************************)
(* C28: whenever context.error is set when GenerateResponse runs, whatever *)
(* the intent (modify_appointment and general_query included), the         *)
(* response is the apologetic error message, and no slot listing, no       *)
(* booking proposal and no confirmation payload is produced.               *)
(***************************************************************************)
RespondedWithError(state) ==
    Ended(state) /\ Visited(state, "generate_response") /\ HasError(state)

C28_ErrorRowFirst ==
    \A sid \in Sessions :
        RespondedWithError(turn[sid]) =>
            /\ Said(turn[sid]) = Reply("issue", turn[sid].context.error)
            /\ ~turn[sid].needs_confirmation
            /\ turn[sid].confirmation_data = NoConfirmation

(***************************************************************************)
(* C29: in a book_appointment turn whose requested specific time is busy   *)
(* and for which one or more alternatives were found, the response         *)
(* presents those slots as alternatives to the busy time (at most 5), and  *)
(* needs_confirmation and a payload are never set for a slot other than    *)
(* the requested one.  Stated for turns in which the provider answered     *)
(* every query and which started with no error and no requested_slot_past  *)
(* in the context.                                                         *)
(***************************************************************************)
BusyWithAlternatives(state) ==
    /\ BookingTurnFoundBusy(state)
    /\ state.unanswered = {}
    /\ state.context.error = None
    /\ HasSlots(state)

\* the slot the user asked for: the spec's start, for the turn's duration
RequestedSlot(state) ==
    [start |-> state.extracted_datetime.start,
     end |-> state.extracted_datetime.start + state.duration_minutes]

C29_BusyRowBeforeOneSlotRow ==
    \A sid \in Sessions :
        BusyWithAlternatives(turn[sid]) =>
            /\ Said(turn[sid]) =
                   Listing("slot_busy_alternatives",
                           SlotTimes(turn[sid].available_slots.list,
                                     turn[sid].extracted_datetime.off))
            /\ Len(turn[sid].available_slots.list) <= MaxAlternatives
            /\ turn[sid].result.needs_confirmation =>
                   CarriesSlot(turn[sid].result.confirmation_data, RequestedSlot(turn[sid]))

(***************************************************************************)
(* C30: date resolution maps "today" to the reference day, "tomorrow" to   *)
(* the day after it and "day after tomorrow" to the second day after it:   *)
(* a text that says "day after tomorrow" resolves to offset 2, not 1.      *)
(***************************************************************************)
\* the offset of the relative word the text says
SaidOffset(text) ==
    IF "day after tomorrow" \in text.kw THEN 2
    ELSE IF "tomorrow" \in text.kw THEN 1
    ELSE 0

SaysRelativeDay(text) == text.kw \cap {"today", "tomorrow", "day after tomorrow"} # {}

C30_RelativeWordsToOffsets ==
    (engCall.op \in {"parse", "_parse_date_part"} /\ SaysRelativeDay(engCall.text)) =>
        /\ engCall.op = "parse" => engCall.out # NoSpec
        /\ ResolvedDate = LocalDate(engCall.now, engCall.off) + SaidOffset(engCall.text)

(***************************************************************************)
(* C31: in an explicit range ("between X and Y", "from X to Y",            *)
(* "X-Y am|pm") where exactly one bound carries an AM/PM marker, the other *)
(* bound takes the same marker, whichever of the two carries it: both      *)
(* bounds of the resolved range are read with that marker.                 *)
(***************************************************************************)
\* exactly one of the two bounds of the matched range carries a marker
OneMarker(range) == range # NoRange /\ ((range.sp = "") # (range.ep = ""))

\* the marker the range carries
TheMarker(range) == IF range.sp # "" THEN range.sp ELSE range.ep

\* <<hour, minute>> of an instant on the clock of its zone
ClockOf(t, off) == <<LocalHour(t, off), LocalMinute(t, off)>>

C31_OtherBoundInheritsMarker ==
    (engCall.op = "parse" /\ OneMarker(engCall.text.range)) =>
        LET r == engCall.text.range
            out == engCall.out
        IN  /\ out # NoSpec
            /\ out.is_range
            /\ ClockOf(out.start, out.off) = _parse_time_string(r.sh, r.sm, TheMarker(r))
            /\ ClockOf(out.end, out.off) = _parse_time_string(r.eh, r.em, TheMarker(r))

(***************************************************************************)
(* C32: morning, afternoon, evening and night each resolve to a non-null   *)
(* same-day range with hour bounds 5-12, 12-18, 18-21 and 21-24 and        *)
(* is_range = true; midnight, noon and midday each resolve to a single     *)
(* instant (hour 0, 12, 12) with is_range = false.  The name the text says *)
(* decides, also when it contains another name (midnight/night,            *)
(* afternoon/noon).                                                        *)
(***************************************************************************)
\* the name of the time of day the text says
SaidPeriod(text) ==
    The(text.kw \cap {"morning", "afternoon", "evening", "night", "midnight", "noon",
                      "midday"})

\* <<start hour, end hour, is_range>> of the name, as the lookup table is described
NamedPeriod(name) ==
    CASE name = "morning" -> <<5, 12, TRUE>>
      [] name = "afternoon" -> <<12, 18, TRUE>>
      [] name = "evening" -> <<18, 21, TRUE>>
      [] name = "night" -> <<21, 24, TRUE>>
      [] name = "midnight" -> <<0, 0, FALSE>>
      [] name = "noon" -> <<12, 12, FALSE>>
      [] name = "midday" -> <<12, 12, FALSE>>

C32_NamedTimeOfDay ==
    (engCall.op = "parse" /\ engCall.text \in NamedPeriodMessages) =>
        LET out == engCall.out
            named == NamedPeriod(SaidPeriod(engCall.text))
            day == LocalDate(engCall.now, engCall.off)
        IN  /\ out # NoSpec
            /\ out.is_range = named[3]
            /\ out.start = AtLocal(day, named[1], 0, engCall.off)
            /\ named[3] => out.end = AtLocal(day, named[2], 0, engCall.off)

(***************************************************************************)
(* C33: available_slots is never populated before the branch after         *)
(* ParseTime, so a book_appointment turn with no error in its context and  *)
(* a resolved spec never goes from ParseTime to GenerateResponse: it       *)
(* visits CheckAvailability before GenerateResponse.                       *)
(***************************************************************************)
\* the turn has not got past the branch after ParseTime
BeforeOrAtBranch(state) ==
    state.pc \in {"parse_intent", "parse_datetime"} \/ AtBranch(state)

\* a booking turn that began with no error in its context and resolved a spec
BookingWithSpec(state) ==
    /\ state.intent = "book_appointment"
    /\ state.context_in.error = None
    /\ state.resolver_ran
    /\ state.resolved # NoSpec

\* the turn is at GenerateResponse, or past it
ReachedResponse(state) ==
    state.pc = "generate_response" \/ Visited(state, "generate_response")

C33_BookingWithSpecChecksFirst ==
    \A sid \in Sessions :
        /\ BeforeOrAtBranch(turn[sid]) => turn[sid].available_slots = NoSlots
        /\ (BookingWithSpec(turn[sid]) /\ AtBranch(turn[sid])) =>
               turn[sid].pc = "check_availability"
        /\ (BookingWithSpec(turn[sid]) /\ ReachedResponse(turn[sid])) =>
               Visited(turn[sid], "check_availability")

\* a booking turn for a resolved time has answered, by way of CheckAvailability
C33_Witness ==
    \E sid \in Sessions :
        /\ BookingWithSpec(turn[sid])
        /\ turn[sid].pc = "done"
        /\ turn[sid].visited = <<"parse_intent", "parse_datetime", "check_availability",
                                 "generate_response">>

(***************************************************************************)
(* C34: an error recorded in a session's context is never cleared by the   *)
(* orchestrator.  The error stored for a session stays the same error;     *)
(* every later turn of the session keeps it, goes from ParseTime straight  *)
(* to GenerateResponse without visiting CheckAvailability, and, when its   *)
(* intent is check_availability or book_appointment, answers with that     *)
(* error, whatever the provider would answer now.                          *)
(***************************************************************************)
\* the error stored for the session ("None" when there is none)
StoredError(contexts, sid) ==
    IF contexts[sid] = Absent THEN None ELSE contexts[sid].error

\* the turn began with an error in the context it loaded
BeganWithError(state) == state.pc # "idle" /\ state.context_in.error # None

ErrorKeptByTurn(state) ==
    BeganWithError(state) =>
        /\ state.context.error = state.context_in.error
        /\ state.pc # "check_availability"
        /\ ~Visited(state, "check_availability")
        /\ state.calls = <<>>
        /\ (Ended(state) /\ state.intent \in {"check_availability", "book_appointment"}) =>
               Said(state) = Reply("issue", state.context_in.error)

ErrorKeptInStore ==
    \A sid \in Sessions :
        StoredError(session_contexts, sid) # None =>
            StoredError(session_contexts', sid) = StoredError(session_contexts, sid)

C34_ErrorNeverCleared ==
    /\ [](\A sid \in Sessions : ErrorKeptByTurn(turn[sid]))
    /\ [][ErrorKeptInStore]_vars

\* a later turn of a session with a stored error has answered a request for a time
\* with that error, and has stored it again
C34_Witness ==
    \E sid \in Sessions :
        /\ BeganWithError(turn[sid])
        /\ turn[sid].pc = "done"
        /\ turn[sid].intent \in {"check_availability", "book_appointment"}
        /\ turn[sid].resolved # NoSpec
        /\ turn[sid].visited = <<"parse_intent", "parse_datetime", "generate_response">>
        /\ Said(turn[sid]) = Reply("issue", turn[sid].context_in.error)
        /\ StoredError(session_contexts, sid) = turn[sid].context_in.error

(***************************************************************************)
(* C35: context.requested_slot_past and context.requested_slot_busy        *)
(* describe the request of the current turn only.  At the end of a turn    *)
(* requested_slot_past is true only if that turn's requested start was at  *)
(* or before now, requested_slot_busy only if that turn's point check      *)
(* found the requested time busy; so a booking turn for a free time in the *)
(* future is answered with the proposal of that time, whatever the earlier *)
(* turns of the session asked for.                                         *)
(***************************************************************************)
\* the turn ran CheckAvailability on a single time that was at or before now
RequestedThePast(state) ==
    /\ Visited(state, "check_availability")
    /\ state.extracted_datetime # NoSpec
    /\ ~state.extracted_datetime.is_range
    /\ state.extracted_datetime.start <= state.checked_at

\* the turn's point check answered "free" for a time after now
RequestedFreeFuture(state) ==
    /\ Visited(state, "check_availability")
    /\ state.extracted_datetime # NoSpec
    /\ state.extracted_datetime.start > state.checked_at
    /\ Len(state.calls) = 1
    /\ state.calls[1].op = "check_availability"
    /\ state.unanswered = {}

C35_FlagsOfThisTurnOnly ==
    \A sid \in Sessions :
        (turn[sid].pc = "done" /\ ~turn[sid].result.failed) =>
            /\ turn[sid].context.requested_slot_past => RequestedThePast(turn[sid])
            /\ turn[sid].context.requested_slot_busy => FoundBusy(turn[sid])
            /\ (/\ turn[sid].intent = "book_appointment"
                /\ turn[sid].context.error = None
                /\ RequestedFreeFuture(turn[sid])) =>
                   /\ Said(turn[sid]).kind = "confirm_booking"
                   /\ turn[sid].result.needs_confirmation

(***************************************************************************)
(* C36: for a range, named-period or full-day spec the window the          *)
(* orchestrator searches is the resolver's [start, end] unchanged, whether *)
(* or not the message also states a duration: the stated duration sets the *)
(* slot length only and never replaces the spec's end with start +         *)
(* duration ("1-hour meeting between 3-5 pm this week" still searches      *)
(* every day of the week).                                                 *)
(***************************************************************************)
\* what the resolver answers for the message of the turn
ResolverAnswer(state) ==
    parse(Last(state.history).content, wallClock, state.user_timezone)

\* a clock-time range over several days
IsMultiDay(spec) ==
    /\ spec.is_range
    /\ ~spec.is_full_day
    /\ LocalDate(spec.end, spec.off) > LocalDate(spec.start, spec.off)

\* the windows a search of the spec covers: one per day of a clock-time range over
\* several days, else the spec's own
WindowsOf(spec, now) ==
    IF IsMultiDay(spec)
    THEN LET dates == DaysToSearch(spec, now)
         IN  [k \in 1..Len(dates) |-> DayWindow(spec, dates[k])]
    ELSE <<[start |-> spec.start, end |-> spec.end]>>

\* the windows the turn queried
WindowsSearched(state) ==
    [k \in 1..Len(state.calls) |-> [start |-> state.calls[k].start, end |-> state.calls[k].end]]

\* the resolver has answered the turn's message with a range or a full day
ResolvedAWindow(state) ==
    /\ state.resolver_ran
    /\ ResolverAnswer(state) # NoSpec
    /\ ResolverAnswer(state).is_range \/ ResolverAnswer(state).is_full_day

C36_SearchesTheResolversWindow ==
    \A sid \in Sessions :
        ResolvedAWindow(turn[sid]) =>
            LET answer == ResolverAnswer(turn[sid])
                stated == DurationOr(extract_duration(Last(turn[sid].history).content),
                                     DefaultDuration)
            IN  /\ turn[sid].extracted_datetime.start = answer.start
                /\ turn[sid].extracted_datetime.end = answer.end
                /\ (Visited(turn[sid], "check_availability") /\ ~HasError(turn[sid])) =>
                       /\ WindowsSearched(turn[sid]) = WindowsOf(answer, turn[sid].checked_at)
                       /\ \A k \in 1..Len(turn[sid].calls) :
                              turn[sid].calls[k].duration = stated

(***************************************************************************)
(* C37: the duration the orchestrator passes to the Availability Engine is *)
(* a positive number of minutes in every turn (a duration of 0 read from   *)
(* the text is discarded in favour of 30), and so the slot-carving loop    *)
(* ends for every window and busy set of every turn: each free period's    *)
(* loop is left after at most as many passes as the period has minutes.    *)
(***************************************************************************)
\* a positive number of minutes (one beyond timedelta's range included)
Positive(n) == n > 0 \/ IsHuge(n)

\* the loop of every free period of the query is left
CarvingEnds(call, cal) ==
    LET all == AllBusyPeriods(FreeBusyQuery(cal, call.start, call.end), call.start, call.end)
    IN  \A i \in 1..(Len(all) - 1) :
            LoopExits(all[i].end, all[i + 1].start, call.duration,
                      IF all[i + 1].start > all[i].end THEN all[i + 1].start - all[i].end
                      ELSE 0)

\* the message of the turn states a duration of 0
StatesNoMinutes(state) ==
    /\ state.pc # "idle"
    /\ extract_duration(Last(state.history).content) = [minutes |-> 0]

C37_DurationPositiveLoopEnds ==
    \A sid \in Sessions :
        /\ Positive(turn[sid].duration_minutes)
        /\ StatesNoMinutes(turn[sid]) => turn[sid].duration_minutes = DefaultDuration
        /\ \A k \in 1..Len(turn[sid].calls) :
               /\ Positive(turn[sid].calls[k].duration)
               /\ turn[sid].calls[k].duration = turn[sid].duration_minutes
               /\ turn[sid].calls[k].op # "check_availability" =>
                      CarvingEnds(turn[sid].calls[k], calendar)

\* a request "for 0 minutes" at a busy time: the day was searched for 30-minute
\* slots and some were found
C37_Witness ==
    \E sid \in Sessions :
        /\ turn[sid].pc = "done"
        /\ StatesNoMinutes(turn[sid])
        /\ Len(turn[sid].calls) = 2
        /\ turn[sid].calls[2] =
               Call("find_free_slots", turn[sid].calls[2].start, turn[sid].calls[2].end,
                    DefaultDuration)
        /\ turn[sid].available_slots.list # <<>>
        /\ \A k \in 1..Len(turn[sid].available_slots.list) :
               turn[sid].available_slots.list[k].end
                   = turn[sid].available_slots.list[k].start + DefaultDuration

(***************************************************************************)
(* C38: every slot returned by find_free_slots (and by get_availability)   *)
(* for a window [start, end) lies inside the window: window.start <=       *)
(* slot.start and slot.end <= window.end, for any busy set the provider    *)
(* reports for the window, busy intervals that begin before the window or  *)
(* end after it included.                                                  *)
(***************************************************************************)
C38_SlotsInsideWindow ==
    Carved =>
        \A k \in 1..Len(engCall.out.slots) :
            /\ engCall.start <= engCall.out.slots[k].start
            /\ engCall.out.slots[k].end <= engCall.end

\* slots were returned for a window with a busy interval that begins before it and
\* one that ends after it
C38_Witness ==
    /\ Carved
    /\ engCall.op = "find_free_slots"
    /\ engCall.out.slots # <<>>
    /\ \E i \in 1..Len(engCall.busy) : engCall.busy[i].start < engCall.start
    /\ \E j \in 1..Len(engCall.busy) : engCall.busy[j].end > engCall.end

(***************************************************************************)
(* C39: execute_booking creates an event only when the point check reports *)
(* the payload's interval free at that moment, and always answers with a   *)
(* status.  Confirming the same payload twice, the first event being       *)
(* reported busy by the provider, creates at most one event: the second    *)
(* call answers "error" and creates nothing.                               *)
(***************************************************************************)
\* the interval of a payload, on the UTC axis
PayloadInterval(confirmation_data) ==
    [start |-> fromisoformat(confirmation_data.start_time).t,
     end |-> fromisoformat(confirmation_data.end_time).t]

\* the events of the calendar that are the payload's interval
EventsOf(cal, confirmation_data) ==
    {k \in 1..Len(cal) : cal[k] = PayloadInterval(confirmation_data)}

\* the answer of a call on the calendar cal: a status, and an event added only for
\* "success" and only where the provider reported nothing busy
AnswersFor(booked, cal, confirmation_data) ==
    /\ booked.status \in {"success", "error"}
    /\ booked.status = "error" => booked.calendar = cal
    /\ booked.status = "success" =>
           /\ booked.calendar = Append(cal, PayloadInterval(confirmation_data))
           /\ \A k \in 1..Len(cal) :
                  ~Overlaps(PayloadInterval(confirmation_data).start,
                            PayloadInterval(confirmation_data).end, cal[k])

\* the calendar before the last event of a successful first call
Before(booked) ==
    IF booked.status = "success"
    THEN SubSeq(booked.calendar, 1, Len(booked.calendar) - 1)
    ELSE booked.calendar

C39_SecondConfirmationCreatesNothing ==
    /\ \A sid \in Sessions :
           turn[sid].booking # NoBooking =>
               AnswersFor(turn[sid].booking, Before(turn[sid].booking),
                          turn[sid].result.confirmation_data)
    /\ engCall.op = "execute_booking" =>
           /\ AnswersFor(engCall.out, engCall.before, engCall.confirmation_data)
           /\ engCall.first.status = "success" =>
                  /\ engCall.out.status = "error"
                  /\ engCall.out.calendar = engCall.before
           /\ Cardinality(EventsOf(engCall.out.calendar, engCall.confirmation_data)) <= 1

\* the payload was confirmed, an event was created, and it was confirmed again with
\* the credentials valid: the answer is an error and the event is there once
C39_Witness ==
    /\ engCall.op = "execute_booking"
    /\ engCall.first.status = "success"
    /\ engCall.out.status = "error"
    /\ engCall.out.error = "Time slot is not available"
    /\ Cardinality(EventsOf(calendar, engCall.confirmation_data)) = 1

(***************************************************************************)
(* C40: when a turn reuses the sticky spec because its own message carries *)
(* no time, the slot length of the point check, of the free-slot search    *)
(* and of the slots it offers is the duration stored in the sticky spec    *)
(* (the one the user stated in the earlier turn), not the 30-minute        *)
(* default of the new turn.                                                *)
(***************************************************************************)
\* the turn's resolver answered null and CheckAvailability took the sticky spec
ReusedSticky(state) ==
    /\ Visited(state, "check_availability")
    /\ state.resolver_ran
    /\ state.resolved = NoSpec
    /\ state.context_in.last_discussed_datetime # NoSpec
    /\ ~HasError(state)

\* the duration the sticky spec carries, 30 minutes when it carries none
StoredDuration(spec) ==
    IF spec.duration_minutes = NoDur THEN DefaultDuration ELSE spec.duration_minutes.minutes

C40_StickyDurationIsReused ==
    \A sid \in Sessions :
        ReusedSticky(turn[sid]) =>
            LET stored == StoredDuration(turn[sid].context_in.last_discussed_datetime)
            IN  /\ turn[sid].extracted_datetime = turn[sid].context_in.last_discussed_datetime
                /\ \A k \in 1..Len(turn[sid].calls) :
                       /\ turn[sid].calls[k].duration = stored
                       /\ turn[sid].calls[k].op = "check_availability" =>
                              turn[sid].calls[k].end = turn[sid].calls[k].start + stored
                /\ \A k \in 1..Len(turn[sid].available_slots.list) :
                       turn[sid].available_slots.list[k].end
                           = turn[sid].available_slots.list[k].start + stored

=============================================================================
